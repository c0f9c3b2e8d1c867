---------------------------- MODULE SettingsFiles ----------------------------
(***************************************************************************)
(* How openadb/core/settings_manager.py reads and writes one settings      *)
(* file: settings.json and its last-known-good copy settings.json.bak.     *)
(*                                                                         *)
(* The single replacements of a file are atomic (os.replace), a save is    *)
(* not: it replaces the copy, then the file.  A save or a load is a        *)
(* request in the queue io, and each step here executes one replacement of *)
(* the first request; the program may stop after any of them.              *)
(***************************************************************************)
EXTENDS Naturals, Sequences

CONSTANTS Scopes,     \* the places that hold a settings.json
          Values,     \* the settings that can be read from one
          Defaults,   \* DEFAULT_SETTINGS
          NoFile,     \* there is no such file
          Damaged     \* the file cannot be decoded

ASSUME FileAssumption == /\ Defaults \in Values
                         /\ NoFile \notin Values
                         /\ Damaged \notin Values
                         /\ NoFile # Damaged

VARIABLES
  disk,   \* scope -> the file and its copy
  io,     \* the requests still to be executed
  newest, \* scope -> the settings saved last, NoFile if none
  older   \* scope -> the different settings saved before those

fileVars == <<disk, io, newest, older>>

Contents == Values \cup {NoFile, Damaged}
Files    == [main: Contents, bak: Contents]
NoFiles  == [main |-> NoFile, bak |-> NoFile]

Valid(content) == content \in Values

\* What loading these files yields.
View(files) == IF Valid(files.main) THEN files.main
               ELSE IF Valid(files.bak) THEN files.bak ELSE NoFile

-----------------------------------------------------------------------------
(* Requests *)

Request(do, scope, value) == [do |-> do, at |-> scope, value |-> value]

Repair(scope)       == Request("repair", scope, NoFile)   \* _load_settings_path
Write(scope, value) == Request("backup", scope, value)    \* _write_json_atomic

\* save: damage that has appeared since is repaired before the new file is written.
Save(scope, value) == <<Repair(scope), Write(scope, value)>>

\* _restore_settings_files
Restore(scope, files) == <<Request("putmain", scope, files.main),
                           Request("putbak", scope, files.bak)>>

Requests == [do: {"repair", "rebuild", "backup", "replace", "putmain", "putbak"},
             at: Scopes, value: Contents]

FilesTypeOK ==
  /\ disk \in [Scopes -> Files]
  /\ \A i \in 1..Len(io) : io[i] \in Requests
  /\ newest \in [Scopes -> Values \cup {NoFile}]
  /\ older \in [Scopes -> Values \cup {NoFile}]

-----------------------------------------------------------------------------
(* Execution *)

This == Head(io)

Main(scope) == disk[scope].main
Bak(scope)  == disk[scope].bak

SetMain(value) == disk' = [disk EXCEPT ![This.at].main = value]
SetBak(value)  == disk' = [disk EXCEPT ![This.at].bak = value]

Then(requests) == io' = requests \o Tail(io)

\* The settings of a scope are saved, or saved again.
Remember(scope, value) ==
  /\ newest' = [newest EXCEPT ![scope] = value]
  /\ older' = IF value = newest[scope] THEN older
              ELSE [older EXCEPT ![scope] = newest[scope]]

Doing(do) == io # <<>> /\ This.do = do

\* A file that cannot be decoded is renamed, a missing one is looked for in the copy.
DoRepair ==
  /\ Doing("repair")
  /\ \/ /\ Valid(Main(This.at)) \/ disk[This.at] = NoFiles
        /\ Then(<<>>)
        /\ UNCHANGED disk
     \/ /\ Main(This.at) = NoFile /\ Bak(This.at) # NoFile
        /\ Then(<<Request("rebuild", This.at, NoFile)>>)
        /\ UNCHANGED disk
     \/ /\ Main(This.at) = Damaged
        /\ SetMain(NoFile)
        /\ Then(<<Request("rebuild", This.at, NoFile)>>)
  /\ UNCHANGED <<newest, older>>

\* From the copy, or from the defaults when there is no usable one.
DoRebuild ==
  /\ Doing("rebuild")
  /\ IF Valid(Bak(This.at))
     THEN Then(<<Write(This.at, Bak(This.at))>>) /\ UNCHANGED disk
     ELSE Then(<<Write(This.at, Defaults)>>) /\ SetBak(NoFile)
  /\ UNCHANGED <<newest, older>>

\* Mutant: the copy takes whatever is in the place of the file.
DoBackupUnread ==
  /\ Doing("backup")
  /\ SetBak(Main(This.at))
  /\ Then(<<Request("replace", This.at, This.value)>>)
  /\ UNCHANGED <<newest, older>>

\* The copy takes the file that is about to be replaced, if that can be read; a
\* copy that can be read is never given up for one that cannot.
DoBackup ==
  /\ Doing("backup")
  /\ SetBak(IF Valid(Main(This.at)) THEN Main(This.at)
            ELSE IF Valid(Bak(This.at)) THEN Bak(This.at) ELSE This.value)
  /\ Then(<<Request("replace", This.at, This.value)>>)
  /\ UNCHANGED <<newest, older>>

DoReplace ==
  /\ Doing("replace")
  /\ SetMain(This.value)
  /\ Then(<<>>)
  /\ Remember(This.at, This.value)

\* A snapshot is put back, file by file, as it was.
DoPut ==
  \/ /\ Doing("putmain")
     /\ SetMain(This.value)
     /\ Then(<<>>)
     /\ IF Valid(This.value) THEN Remember(This.at, This.value)
        ELSE LET left == View([disk[This.at] EXCEPT !.main = This.value])
             IN  /\ newest' = [newest EXCEPT ![This.at] = left]
                 /\ older' = [older EXCEPT ![This.at] = left]
  \/ /\ Doing("putbak")
     /\ SetBak(This.value)
     /\ Then(<<>>)
     /\ LET left == View([main |-> Main(This.at), bak |-> This.value])
        IN  /\ newest' = [newest EXCEPT ![This.at] = left]
            /\ older' = [older EXCEPT ![This.at] = IF Valid(This.value) THEN This.value
                                                  ELSE left]

Execute == DoRepair \/ DoRebuild \/ DoBackup \/ DoReplace \/ DoPut

\* Something outside OpenADB destroys a file whose counterpart can be read.
Damage(scope) ==
  /\ View(disk[scope]) # NoFile
  /\ \E loss \in {NoFile, Damaged} :
        \/ Valid(Bak(scope)) /\ disk' = [disk EXCEPT ![scope].main = loss]
        \/ Valid(Main(scope)) /\ disk' = [disk EXCEPT ![scope].bak = loss]
  /\ UNCHANGED <<io, newest, older>>

-----------------------------------------------------------------------------

\* Whatever step the program has been stopped in, and although one of the two files
\* has been destroyed meanwhile, loading a scope yields the settings that were saved
\* last or the ones before those (_write_json_atomic, _load_settings_path).
LastKnownGood ==
  \A scope \in Scopes :
     newest[scope] # NoFile => View(disk[scope]) \in {newest[scope], older[scope]}
=============================================================================
