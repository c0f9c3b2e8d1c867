--------------------------- MODULE MCSettingsStore ---------------------------
(* Small instances of SettingsStore. *)
EXTENDS SettingsStore

CONSTANTS a, b

MCBackends == {"standard", "root"}
MCLegacyOfA == {<<a, "devices">>}
=============================================================================
