-------------------------- MODULE OperationRegistry --------------------------
(***************************************************************************)
(* The process-wide registry of cancellable operations                     *)
(* (openadb/core/operations.py) and the tokens it hands out.  An operation *)
(* is registered at most once; its token outlives its registration.  Each  *)
(* action is one section under the registry lock or one token.cancel call. *)
(***************************************************************************)
EXTENDS Naturals

CONSTANTS Ops,        \* the operations the user may start
          Kinds,      \* what they do: a dashboard command, a listing, ...
          CommandFamilies,  \* Kind -> conflict groups without a serial
          SerialFamilies,   \* Kind -> conflict groups qualified by the serial
          BoundKinds        \* the kinds that need a device context

ASSUME FamilyAssumption ==
  /\ BoundKinds \subseteq Kinds
  /\ DOMAIN CommandFamilies = Kinds
  /\ DOMAIN SerialFamilies = Kinds

VARIABLES
  registered,    \* OperationRegistry._tokens
  shuttingDown,  \* OperationRegistry._shutting_down
  cancelled,     \* the tokens whose cancel_event is set
  kind,          \* Op -> its kind
  context        \* Op -> token.device_context

registryVars == <<registered, shuttingDown, cancelled, kind, context>>

\* The conflict_groups of an operation of kind k on the device with a serial.
Groups(k, serial) ==
  {<<family, "">> : family \in CommandFamilies[k]}
    \cup {<<family, serial>> : family \in SerialFamilies[k]}

GroupsOf(o) == Groups(kind[o], context[o].device.serial)

\* Mutant: a cancelled operation no longer blocks its conflict groups.
ConflictsUnlessCancelled(o, groups) ==
  o \notin cancelled /\ GroupsOf(o) \cap groups # {}

Conflicts(o, groups) == GroupsOf(o) \cap groups # {}

RegisterToken(o) == registered' = registered \cup {o}

FinishToken(o) == registered' = registered \ {o}

CancelToken(o) == cancelled' = cancelled \cup {o}

\* The tokens cancel_stale snapshots under the lock before cancelling them.
StaleTokens(currentGeneration, unbound) ==
  {o \in registered : context[o] # unbound
                      /\ context[o].generation < currentGeneration}

\* cancel_owner, for the tokens of one kind.
OwnedTokens(k) == {o \in registered : kind[o] = k}
=============================================================================
