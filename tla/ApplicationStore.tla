-------------------------- MODULE ApplicationStore --------------------------
(***************************************************************************)
(* The option store of CommonLoader (ApplicationStore.cpp): the in-memory  *)
(* sections of every running copy of a game, the one .ini file they share, *)
(* and the state registers.  A process is single threaded, so a handler is *)
(* one action unless another process can act in the middle of it: Save     *)
(* is split where it truncates the file (CREATE_ALWAYS) and where it       *)
(* writes it.  Load opens, reads and closes without a write in between:    *)
(* its handle denies writers, so one action is enough.                     *)
(***************************************************************************)
EXTENDS Naturals

CONSTANTS
  Procs,      \* processes of one game, hence of one app_uid and one file
  Options,    \* the <<section, name>> pairs in use
  Values,     \* the values an option can hold
  Absent,     \* the "value" of an option that is not set
  Printable,  \* the values made of the bytes CheckDataASCII accepts
  ExeName,    \* the module's file name, narrowed to char
  NoProc,     \* nobody
  StateArgs,  \* the register numbers that callers pass, in range or not
  Bits        \* the bits of a register that callers use

DefaultSection == "Application"
NameOption == <<DefaultSection, "Name">>

ASSUME StoreConstants ==
  /\ NameOption \in Options
  /\ ExeName \in Values
  /\ Absent \notin Values
  /\ NoProc \notin Procs
  /\ StateArgs \subseteq Nat

VARIABLES
  pc,         \* pc[p]: not running, in client code, about to open the file
              \* for a save, or between truncating it and writing it
  appConfig,  \* appConfig[p]: app_config; a missing section or key is Absent
  states,     \* states[p]: the state registers, each the set of its 1 bits
  hasPath,    \* hasPath[p]: app_storage_path is not empty
  disk,       \* the file: missing, text, or bytes that are not text
  writer,     \* the process whose handle to the file has write access
  prior       \* auxiliary: the file as it was before `writer` truncated it

storeVars == <<pc, appConfig, states, hasPath, disk, writer, prior>>

-----------------------------------------------------------------------------
StateMax == 4
Registers == 0 .. StateMax
ZeroStates == [s \in Registers |-> {}]

Contents == [Options -> Values \cup {Absent}]
Empty == [o \in Options |-> Absent]
NameOnly == [Empty EXCEPT ![NameOption] = ExeName]

\* A file of length 0 loads as an empty store.
Text(c) == [form |-> "text", config |-> c]
NoFile == [form |-> "none", config |-> Empty]
Garbled == [form |-> "garbled", config |-> Empty]

Files == [form : {"none", "text", "garbled"}, config : Contents]

\* Every variable keeps its shape; in particular every file the process leaves
\* behind has a form that the load code distinguishes.
TypeOK ==
  /\ pc \in [Procs -> {"down", "ready", "open", "write"}]
  /\ appConfig \in [Procs -> Contents]
  /\ states \in [Procs -> [Registers -> SUBSET Bits]]
  /\ hasPath \in [Procs -> BOOLEAN]
  /\ disk \in Files
  /\ writer \in Procs \cup {NoProc}
  /\ prior \in Files

Init ==
  /\ pc = [p \in Procs |-> "down"]
  /\ appConfig = [p \in Procs |-> Empty]
  /\ states = [p \in Procs |-> ZeroStates]
  /\ hasPath = [p \in Procs |-> FALSE]
  /\ disk = NoFile
  /\ writer = NoProc
  /\ prior = NoFile

-----------------------------------------------------------------------------
(* Loading.                                                                 *)

\* CheckDataASCII over the whole file; ini_load then accepts any such text.
CheckDataASCII(d) ==
  /\ d.form = "text"
  /\ \A o \in Options : d.config[o] \in Printable \cup {Absent}

\* The file opens for reading, sharing with readers only, and is accepted.
CanLoad == writer = NoProc /\ CheckDataASCII(disk)

\* What appending the sections of a file d to c can give: a section of the file
\* replaces the one in memory.  One without options in d is either not in the
\* file or a header that stands alone, which empties the section in memory.
Merged(c, d) ==
  {m \in Contents : \A o \in Options :
     LET section == {q \in Options : q[1] = o[1]}
     IN \/ \A q \in section : m[q] = d[q]
        \/ \A q \in section : d[q] = Absent /\ m[q] = c[q]}

\* ApplicationStore::Init up to its call of Save, in a process that starts.
Launch(p) ==
  /\ pc[p] = "down"
  /\ \/ /\ pc' = [pc EXCEPT ![p] = "ready"]             \* no local app data
        /\ UNCHANGED <<appConfig, hasPath>>
     \/ /\ CanLoad
        /\ appConfig' = [appConfig EXCEPT ![p] = disk.config]
        /\ pc' = [pc EXCEPT ![p] = "ready"]
        /\ hasPath' = [hasPath EXCEPT ![p] = TRUE]
     \/ /\ ~CanLoad
        /\ appConfig' = [appConfig EXCEPT ![p] = NameOnly]
        /\ pc' = [pc EXCEPT ![p] = "open"]
        /\ hasPath' = [hasPath EXCEPT ![p] = TRUE]
  /\ UNCHANGED <<states, disk, writer, prior>>

\* Load called on the storage path by a running process.
Reload(p, append) ==
  /\ pc[p] = "ready"
  /\ hasPath[p]
  /\ LET kept == IF append THEN appConfig[p] ELSE Empty
     IN \E c \in IF CanLoad THEN Merged(kept, disk.config) ELSE {kept} :
          appConfig' = [appConfig EXCEPT ![p] = c]
  /\ UNCHANGED <<pc, states, hasPath, disk, writer, prior>>

-----------------------------------------------------------------------------
(* Saving.  The handle denies other writers and new readers; the file is    *)
(* empty from the moment it opens.                                          *)

SaveApplicationOptions(p) ==
  /\ pc[p] = "ready"
  /\ pc' = [pc EXCEPT ![p] = "open"]
  /\ UNCHANGED <<appConfig, states, hasPath, disk, writer, prior>>

\* Defective variant: the handle shares with other writers.
SaveOpenShared(p) ==
  /\ pc[p] = "open"
  /\ hasPath[p]
  /\ pc' = [pc EXCEPT ![p] = "write"]
  /\ writer' = p
  /\ prior' = disk
  /\ disk' = Text(Empty)
  /\ UNCHANGED <<appConfig, states, hasPath>>

SaveOpen(p) ==
  /\ pc[p] = "open"
  /\ hasPath[p]
  /\ writer = NoProc
  /\ pc' = [pc EXCEPT ![p] = "write"]
  /\ writer' = p
  /\ prior' = disk
  /\ disk' = Text(Empty)
  /\ UNCHANGED <<appConfig, states, hasPath>>

\* Defective variant: Save waits for a path.
SaveOpenWaits(p) ==
  /\ pc[p] = "open"
  /\ hasPath[p]
  /\ pc' = [pc EXCEPT ![p] = "ready"]
  /\ UNCHANGED <<appConfig, states, hasPath, disk, writer, prior>>

\* A sharing violation, an empty path, a read-only file: the invalid handle
\* passes the null test and WriteFile fails on it.
SaveOpenFails(p) ==
  /\ pc[p] = "open"
  /\ pc' = [pc EXCEPT ![p] = "ready"]
  /\ UNCHANGED <<appConfig, states, hasPath, disk, writer, prior>>

\* Defective variant: OPEN_ALWAYS leaves what the old file had and the new
\* contents do not cover.
SaveWriteOver(p) ==
  /\ pc[p] = "write"
  /\ disk' = Text([o \in Options |->
       IF appConfig[p][o] = Absent THEN prior.config[o] ELSE appConfig[p][o]])
  /\ pc' = [pc EXCEPT ![p] = "ready"]
  /\ writer' = NoProc
  /\ prior' = NoFile
  /\ UNCHANGED <<appConfig, states, hasPath>>

SaveWrite(p) ==
  /\ pc[p] = "write"
  /\ \E d \in {Text(appConfig[p]), disk} : disk' = d    \* WriteFile may fail
  /\ pc' = [pc EXCEPT ![p] = "ready"]
  /\ writer' = NoProc
  /\ prior' = NoFile
  /\ UNCHANGED <<appConfig, states, hasPath>>

-----------------------------------------------------------------------------
(* Options and registers.                                                   *)

GetOption(p, o) == appConfig[p][o]

SetOption(p, o, v) ==
  /\ pc[p] = "ready"
  /\ appConfig' = [appConfig EXCEPT ![p][o] = v]
  /\ UNCHANGED <<pc, states, hasPath, disk, writer, prior>>

ClearSection(p, section) ==
  /\ pc[p] = "ready"
  /\ appConfig' = [appConfig EXCEPT ![p] =
       [o \in Options |-> IF o[1] = section THEN Absent ELSE @[o]]]
  /\ UNCHANGED <<pc, states, hasPath, disk, writer, prior>>

\* Defective variant: the bound is off by one.
SetStatePastEnd(p, s, value) ==
  /\ pc[p] = "ready"
  /\ s <= StateMax + 1
  /\ states' = [states EXCEPT ![p] =
       [r \in Registers \cup {s} |-> IF r = s THEN value ELSE @[r]]]
  /\ UNCHANGED <<pc, appConfig, hasPath, disk, writer, prior>>

\* A register number above CMN_LOADER_STATE_MAX is ignored.
SetState(p, s, value) ==
  /\ pc[p] = "ready"
  /\ s <= StateMax
  /\ states' = [states EXCEPT ![p][s] = value]
  /\ UNCHANGED <<pc, appConfig, hasPath, disk, writer, prior>>

SetStateFlag(p, s, flag, set) ==
  SetState(p, s, IF set THEN states[p][s] \cup flag ELSE states[p][s] \ flag)

-----------------------------------------------------------------------------
(* A process can end anywhere; Windows then closes its handles.  Nothing    *)
(* flushes the file, so a power cut can also lose or zero its contents.     *)

Stop(p) ==
  /\ pc[p] # "down"
  /\ pc' = [pc EXCEPT ![p] = "down"]
  /\ appConfig' = [appConfig EXCEPT ![p] = Empty]
  /\ states' = [states EXCEPT ![p] = ZeroStates]
  /\ hasPath' = [hasPath EXCEPT ![p] = FALSE]
  /\ writer' = IF writer = p THEN NoProc ELSE writer
  /\ prior' = IF writer = p THEN NoFile ELSE prior
  /\ UNCHANGED disk

PowerLoss ==
  /\ disk.form # "none"
  /\ \E d \in {disk, Text(Empty), Garbled} : disk' = d
  /\ pc' = [p \in Procs |-> "down"]
  /\ appConfig' = [p \in Procs |-> Empty]
  /\ states' = [p \in Procs |-> ZeroStates]
  /\ hasPath' = [p \in Procs |-> FALSE]
  /\ writer' = NoProc
  /\ prior' = NoFile

-----------------------------------------------------------------------------
SaveStep(p) == SaveOpen(p) \/ SaveOpenFails(p) \/ SaveWrite(p)

OptionStep(p) ==
  \/ \E append \in BOOLEAN : Reload(p, append)
  \/ \E o \in Options, v \in Values : SetOption(p, o, v)
  \/ \E o \in Options : ClearSection(p, o[1])

StateStep(p) ==
  \E s \in StateArgs, flag \in SUBSET Bits :
    \/ SetState(p, s, flag)
    \/ \E set \in BOOLEAN : SetStateFlag(p, s, flag, set)

Next ==
  \/ \E p \in Procs :
       \/ Launch(p) \/ SaveApplicationOptions(p) \/ SaveStep(p)
       \/ OptionStep(p) \/ StateStep(p) \/ Stop(p)
  \/ PowerLoss

\* Save waits for nobody: CreateFileW and WriteFile return.
Fairness == \A p \in Procs : WF_storeVars(SaveStep(p))

Spec == Init /\ [][Next]_storeVars /\ Fairness
-----------------------------------------------------------------------------
(* Properties.                                                              *)

\* The mapping to the abstract store: while a writer has the file truncated,
\* the last completed save is the file it opened; a file that is missing or
\* zeroed holds nothing.
Config(d) == IF d.form = "text" THEN d.config ELSE Empty
File == Config(IF writer = NoProc THEN disk ELSE prior)
Running == {p \in Procs : pc[p] # "down"}

Atomic == INSTANCE AtomicStore WITH file <- File, mem <- appConfig, up <- Running

\* A launch of any process sees one completed save whole, or none of it, never
\* the file as another process or a killed one left it between truncation and
\* write (ApplicationStore.cpp:180-209).
ImplementsAtomicStore == Atomic!Spec

\* The share modes of Load and Save make a save exclusive across processes:
\* whoever is between truncating and writing the file is the only one.
WriterIsAlone ==
  \A p \in Procs : pc[p] = "write" <=> writer = p

\* Every call of Save comes back, also in a process without a storage path: a
\* file that another process has open is an error and not a wait
\* (ApplicationStore.cpp:180-204).
SaveReturns ==
  \A p \in Procs : pc[p] = "open" ~> pc[p] \in {"ready", "down"}

\* "Check for corruption" (ApplicationStore.cpp:144): what a launch refuses, and
\* then overwrites, is a file that is missing, damaged or being written, never
\* one that a Save completed.
IntactFileLoads ==
  [][\A p \in Procs :
       (pc[p] = "down" /\ pc'[p] = "open")
         => (writer # NoProc \/ disk.form # "text")]_storeVars
=============================================================================
