---------------------------- MODULE AtomicStore ----------------------------
(***************************************************************************)
(* What the options file promises its users, with none of its mechanism:   *)
(* a launch sees the whole of one completed save, or none of it.  `file`   *)
(* is the last completed save, `mem` what each running game holds, `up`    *)
(* the games that run.  ApplicationStore implements this specification.    *)
(***************************************************************************)
CONSTANTS
  Procs,      \* the game processes that share one options file
  Options,    \* the <<section, name>> pairs in use
  Values,     \* the values an option can hold
  Absent,     \* the "value" of an option that is not set
  ExeName     \* what a store that could not be loaded holds under "Name"

VARIABLES file, mem, up

vars == <<file, mem, up>>

Contents == [Options -> Values \cup {Absent}]
Nothing == [o \in Options |-> Absent]
NameOnly == [Nothing EXCEPT ![<<"Application", "Name">>] = ExeName]

SameSection(section, c, d) == \A o \in Options : o[1] = section => c[o] = d[o]

Init ==
  /\ file = Nothing
  /\ mem = [p \in Procs |-> Nothing]
  /\ up = {}

\* A launch takes the whole file or, when it cannot be read, none of it.
Open(p) ==
  /\ p \notin up
  /\ up' = up \cup {p}
  /\ \E c \in {file, NameOnly, Nothing} : mem' = [mem EXCEPT ![p] = c]
  /\ UNCHANGED file

\* Options change in memory only, and within one section.
Put(p) ==
  /\ p \in up
  /\ \E c \in Contents :
       /\ \E o \in Options : \A q \in Options :
            q[1] # o[1] => SameSection(q[1], c, mem[p])
       /\ mem' = [mem EXCEPT ![p] = c]
  /\ UNCHANGED <<file, up>>

\* A reload is a launch's load, or merges whole sections of the file.
Reload(p) ==
  /\ p \in up
  /\ \E c \in Contents :
       /\ \/ c = Nothing
          \/ \A o \in Options : \/ SameSection(o[1], c, mem[p])
                                \/ SameSection(o[1], c, file)
       /\ mem' = [mem EXCEPT ![p] = c]
  /\ UNCHANGED <<file, up>>

\* A save replaces the whole file.
Save(p) ==
  /\ p \in up
  /\ file' = mem[p]
  /\ UNCHANGED <<mem, up>>

\* A save that fails half way, or a power cut, loses the file, never a part of
\* it; the processes in `gone` stop, perhaps none.
Lose ==
  /\ file' \in {file, Nothing}
  /\ \E gone \in SUBSET up :
       /\ up' = up \ gone
       /\ mem' = [p \in Procs |-> IF p \in gone THEN Nothing ELSE mem[p]]

Next ==
  \/ \E p \in Procs : Open(p) \/ Put(p) \/ Reload(p) \/ Save(p)
  \/ Lose

Spec == Init /\ [][Next]_vars
=============================================================================
