------------------------------- MODULE IniFile -------------------------------
(***************************************************************************)
(* The options file as text: ini_load and ini_save (externals/ini.h) as    *)
(* ApplicationStore::Load and Save use them.  A user has edited the file,  *)
(* a launch loads it, the scanner sets an option, and a save writes        *)
(* everything back, in the order in which the hash tables yield it.        *)
(*                                                                         *)
(* Text is a sequence of characters, a name or a value too.  They are the  *)
(* ones that CheckDataASCII lets through: no tab, no NUL.                  *)
(***************************************************************************)
EXTENDS Naturals, Sequences, SequencesExt, FiniteSets

CONSTANTS
  Characters,   \* the characters in use, the ones named below among them
  Texts,        \* what a user's edit can leave in the file
  NewOptions,   \* the options that are set: [section, name, value]
  MaxText,      \* the bound on the text that a save writes,
  MaxItems,     \* and on its sections and the entries of each
  NotLoaded     \* the options of a game that is not running

LF == "LF"
CR == "CR"
Space == " "
Semicolon == ";"
Blank == {LF, CR, Space}     \* the characters up to ' '
Control == {LF, CR}          \* the ones below it

ASSUME IniConstants ==
  /\ Blank \cup {"=", "[", "]", Semicolon} \subseteq Characters
  /\ Texts \subseteq Seq(Characters)
  /\ NewOptions \subseteq
       [section : Seq(Characters), name : Seq(Characters), value : Seq(Characters)]
  /\ MaxText \in Nat /\ MaxItems \in Nat

VARIABLES
  text,         \* the file
  config,       \* app_config, a map from sections to maps from names to values
  saved         \* auxiliary: app_config as it was saved last

iniVars == <<text, config, saved>>

-----------------------------------------------------------------------------
(* ini_load.                                                                *)

\* The first position from p on that holds one of stops, or the end.
Until(t, p, stops) ==
  CHOOSE n \in p .. Len(t) + 1 :
    /\ n <= Len(t) => t[n] \in stops
    /\ \A k \in p .. n - 1 : t[k] \notin stops

\* The first position from p on that holds no blank.
SolidFrom(t, p) == Until(t, p, Characters \ Blank)

Holds(t, n, c) == n <= Len(t) /\ t[n] = c

Trim(s) ==
  LET solid == {n \in DOMAIN s : s[n] \notin Blank}
  IN IF solid = {} THEN <<>> ELSE SubSeq(s, Min(solid), Max(solid))

\* The name that ini_section_add or ini_property_add is given: a length of 0
\* means that it ends where the text does.
Name(t, from, to) ==
  SubSeq(t, from, IF from = to THEN Len(t) ELSE to - 1)

Item(kind, name, value, next) ==
  [kind |-> kind, name |-> name, value |-> value, next |-> next]
Skip(next) == Item("nothing", <<>>, <<>>, next)

Header(t, p) ==
  LET close == Until(t, p + 1, {"]", LF})
  IN IF Holds(t, close, "]")
     THEN Item("section", Name(t, p + 1, close), <<>>, close + 1)
     ELSE Skip(close)

\* Defective variants: blanks around the value are kept; a name ends at "="
\* only.
AssignmentUntrimmed(t, p, eq) ==
  LET end == Until(t, eq, {LF})
  IN Item("property", Name(t, p, Until(t, p, {"=", Space})),
          SubSeq(t, eq + 1, end - 1), end)
AssignmentWithBlanks(t, p, eq) ==
  LET end == Until(t, eq, {LF})
  IN Item("property", Name(t, p, eq), Trim(SubSeq(t, eq + 1, end - 1)), end)

\* A line with "=": the name ends there or at the first space.
Assignment(t, p, eq) ==
  LET end == Until(t, eq, {LF})
  IN Item("property", Name(t, p, Until(t, p, {"=", Space})),
          Trim(SubSeq(t, eq + 1, end - 1)), end)

\* A line without "=" is a name and its value.
Bare(t, p, end) ==
  LET word == SubSeq(t, p, Until(t, p, Control) - 1)
  IN Item("property", word, word, end)

Property(t, p) ==
  LET stop == Until(t, p, {"=", LF})
  IN IF Holds(t, stop, "=") THEN Assignment(t, p, stop) ELSE Bare(t, p, stop)

\* The item that starts at p, where there is no blank.
ItemAt(t, p) ==
  CASE t[p] = Semicolon -> Skip(Until(t, p, {LF}))
    [] t[p] = "[" -> Header(t, p)
    [] OTHER -> Property(t, p)

\* A round of the loop of ini_load, which is over at the end of the text: it
\* reads the item at which it is and goes on past the blanks after it.
Round(t, so) ==
  IF so.at > Len(t) THEN so
  ELSE [at |-> SolidFrom(t, ItemAt(t, so.at).next), starts |-> so.starts \cup {so.at}]

\* Where n rounds have come to, and where the items they have read start.
Loop(t) ==
  LET loop[n \in 0 .. Len(t)] ==
        IF n = 0 THEN [at |-> SolidFrom(t, 1), starts |-> {}] ELSE Round(t, loop[n - 1])
  IN loop

\* The items of a file, by the positions at which they start.
Items(t) == [p \in Loop(t)[Len(t)].starts |-> ItemAt(t, p)]

\* The global section, whose name is empty, is section 0; any other section is
\* known by the position of its header.
SectionsOf(items) == {0} \cup {n \in DOMAIN items : items[n].kind = "section"}
SectionName(items, s) == IF s = 0 THEN <<>> ELSE items[s].name
PropertiesOf(items, s) ==
  {n \in DOMAIN items : /\ items[n].kind = "property"
                        /\ s = Max({q \in SectionsOf(items) : q < n})}

\* Of several properties of one name the last one counts.
SectionMap(items, s) ==
  LET own == PropertiesOf(items, s)
  IN [k \in {items[n].name : n \in own} |->
        items[Max({n \in own : items[n].name = k})].value]

\* Defective variant: the global section is left out when it is empty.
LoadedNamed(t) ==
  LET items == Items(t)
  IN [name \in {SectionName(items, s) : s \in SectionsOf(items) \ {0}} |->
        SectionMap(items, Max({s \in SectionsOf(items) : SectionName(items, s) = name}))]

\* ApplicationStore::Load: of several sections of one name the last one counts,
\* and it drops the others' properties.
Loaded(t) ==
  LET items == Items(t)
  IN [name \in {SectionName(items, s) : s \in SectionsOf(items)} |->
        SectionMap(items, Max({s \in SectionsOf(items) : SectionName(items, s) = name}))]

-----------------------------------------------------------------------------
(* ini_save.                                                                *)

\* Defective variant: a line is not ended.
EntryUnended(name, value) == name \o <<"=">> \o value

Entry(name, value) == name \o <<"=">> \o value \o <<LF>>

\* The first n entries of a section in the given order.
EntriesUpTo(section, order) ==
  LET upTo[n \in 0 .. Len(order)] ==
        IF n = 0 THEN <<>>
        ELSE upTo[n - 1] \o Entry(order[n], section[order[n]])
  IN upTo

\* The entries of a section, in any order.
Entries(section) ==
  {EntriesUpTo(section, order)[Len(order)] : order \in SetToSeqs(DOMAIN section)}

\* The section that the store adds for the empty name has no header.
HeaderLine(name) == IF name = <<>> THEN <<>> ELSE <<"[">> \o name \o <<"]", LF>>

\* Defective variant: what has no header is not written.
WithSectionNamed(before, name, entries) ==
  IF name = <<>> THEN before ELSE before \o HeaderLine(name) \o entries \o <<LF>>

\* The text so far, and section name with its empty line after it; no empty
\* line starts the file.
WithSection(before, name, entries) ==
  LET all == before \o HeaderLine(name) \o entries
  IN IF all = <<>> THEN <<>> ELSE all \o <<LF>>

\* What may be written for the first n sections in the given order.
SectionsUpTo(c, order) ==
  LET upTo[n \in 0 .. Len(order)] ==
        IF n = 0 THEN {<<>>}
        ELSE {WithSection(before, order[n], entries) :
                before \in upTo[n - 1], entries \in Entries(c[order[n]])}
  IN upTo

\* The texts that Save may write, over the orders of unordered_map.
SavedTexts(c) ==
  UNION {SectionsUpTo(c, order)[Len(order)] : order \in SetToSeqs(DOMAIN c)}

-----------------------------------------------------------------------------
EmptyMap == <<>>             \* the function with no argument
Running == config # NotLoaded

\* The file as a user or an earlier version left it.  An edit between two
\* sessions is a new beginning.
IniInit ==
  /\ text \in Texts
  /\ config = NotLoaded
  /\ saved = NotLoaded

\* A launch.  The file is there and nobody writes it (see ApplicationStore).
Load ==
  /\ ~Running
  /\ config' = Loaded(text)
  /\ UNCHANGED <<text, saved>>

\* SetOption makes the section when there is none.
SetOption(o) ==
  /\ Running
  /\ LET section == IF o.section \in DOMAIN config THEN config[o.section] ELSE EmptyMap
         changed == [k \in DOMAIN section \cup {o.name} |->
                       IF k = o.name THEN o.value ELSE section[k]]
     IN config' = [s \in DOMAIN config \cup {o.section} |->
                     IF s = o.section THEN changed ELSE config[s]]
  /\ UNCHANGED <<text, saved>>

ClearSection(s) ==
  /\ Running
  /\ config' = [n \in DOMAIN config \ {s} |-> config[n]]
  /\ UNCHANGED <<text, saved>>

Bounded(c) ==
  /\ Cardinality(DOMAIN c) <= MaxItems
  /\ \A s \in DOMAIN c : Cardinality(DOMAIN c[s]) <= MaxItems

Save ==
  /\ Running
  /\ Bounded(config)
  /\ \E t \in SavedTexts(config) : Len(t) <= MaxText /\ text' = t
  /\ saved' = config
  /\ UNCHANGED config

Exit ==
  /\ Running
  /\ config' = NotLoaded
  /\ UNCHANGED <<text, saved>>

IniNext ==
  \/ Load \/ Save \/ Exit
  \/ \E o \in NewOptions : SetOption(o) \/ ClearSection(o.section)

IniSpec == IniInit /\ [][IniNext]_iniVars

-----------------------------------------------------------------------------
(* What the lines of a file mean, one at a time.                            *)

\* A line that is not empty is known by its first character that is no blank.
Firsts(t) ==
  {n \in DOMAIN t :
     /\ t[n] \notin Blank
     /\ \A k \in 1 .. n - 1 : t[k] \notin Blank => \E j \in k .. n - 1 : t[j] = LF}
Line(t, n) == Trim(SubSeq(t, n, Until(t, n, {LF}) - 1))

IsHeader(line) ==
  /\ Len(line) > 2 /\ line[1] = "[" /\ line[Len(line)] = "]"
  /\ \A n \in 2 .. Len(line) - 1 : line[n] # "]"
HeaderName(line) == SubSeq(line, 2, Len(line) - 1)

BeforeEq(line) == SubSeq(line, 1, Until(line, 1, {"="}) - 1)
LeftOf(line) == Trim(BeforeEq(line))
RightOf(line) == Trim(SubSeq(line, Until(line, 1, {"="}) + 1, Len(line)))
WellNamed(name) ==
  /\ name # <<>> /\ name[1] \notin {"[", Semicolon}
  /\ \A n \in DOMAIN name : name[n] \notin Blank \cup {"="}
IsEntry(line) ==
  Contains(line, "=") /\ ~Contains(BeforeEq(line), CR) /\ WellNamed(LeftOf(line))

\* Every line is empty, a comment, a header with a name, or name=value where
\* the name has no blank in it and only spaces after it.
Tidy(t) ==
  \A n \in Firsts(t) :
    LET line == Line(t, n) IN line[1] = Semicolon \/ IsHeader(line) \/ IsEntry(line)

\* What such a text means: an entry belongs to the header above it, if any, and
\* the last header of a name and, below it, the last entry of a name count.
HeadersIn(t) == {n \in Firsts(t) : IsHeader(Line(t, n))}
NameAt(t, h) == IF h = 0 THEN <<>> ELSE HeaderName(Line(t, h))
EntriesBelow(t, h) ==
  {n \in Firsts(t) : /\ n > h /\ IsEntry(Line(t, n))
                     /\ \A g \in HeadersIn(t) : ~(h < g /\ g < n)}

Meaning(t) ==
  LET all == {0} \cup HeadersIn(t)
  IN [name \in {NameAt(t, h) : h \in all} |->
       LET own == EntriesBelow(t, Max({h \in all : NameAt(t, h) = name}))
       IN [k \in {LeftOf(Line(t, n)) : n \in own} |->
             RightOf(Line(t, Max({n \in own : LeftOf(Line(t, n)) = k})))]]

\* Options with names and values that the format can hold.
Writable(c) ==
  \A s \in DOMAIN c :
    /\ \A n \in DOMAIN s : s[n] \notin {"]", LF}
    /\ \A k \in DOMAIN c[s] : /\ WellNamed(k)
                              /\ c[s][k] = Trim(c[s][k])
                              /\ ~Contains(c[s][k], LF)

\* Options that have a place in a file: those of a named section.
Storable(c) == Writable(c) /\ (<<>> \in DOMAIN c => c[<<>>] = EmptyMap)

\* With the global section, which every load makes.
WithGlobal(c) ==
  [s \in DOMAIN c \cup {<<>>} |-> IF s \in DOMAIN c THEN c[s] ELSE EmptyMap]

Headless(t) == Loaded(t)[<<>>] # EmptyMap

-----------------------------------------------------------------------------
(* Properties.                                                              *)

\* The file holds characters and the options are a map of maps of texts, with
\* a global section after every load (ini.h:482-497).
IniTypeOK ==
  /\ text \in Seq(Characters)
  /\ <<>> \in DOMAIN Loaded(text)
  /\ \A c \in {config, saved} \ {NotLoaded} : \A s \in DOMAIN c :
       /\ s \in Seq(Characters)
       /\ \A k \in DOMAIN c[s] : k \in Seq(Characters) /\ c[s][k] \in Seq(Characters)

\* The scan of ini_load, which goes on from wherever an item ended, reads a
\* tidy file line by line, whatever blanks, comments, CRs and missing line ends
\* there are in it.
ReadsAsWritten == Tidy(text) => Loaded(text) = Meaning(text)

\* In whatever order the hash tables yield them, storable options are written to
\* a tidy file, and the next load finds the same options in the same sections.
SavedLoadsBack ==
  (saved # NotLoaded /\ Storable(saved)) =>
    Tidy(text) /\ Loaded(text) = WithGlobal(saved)

\* Options above the first header have none to be saved under and may come back
\* in another section.  They take nothing with them: every section is there
\* again with its own options, whose values are the saved ones unless such an
\* option has the same name, and none of the options is lost.
OnlyStraysMove ==
  (saved # NotLoaded /\ Writable(saved)) =>
    LET old == WithGlobal(saved)
        new == Loaded(text)
    IN /\ DOMAIN new = DOMAIN old
       /\ \A s \in DOMAIN old : s # <<>> => DOMAIN old[s] \subseteq DOMAIN new[s]
       /\ \A s \in DOMAIN new : \A k \in DOMAIN new[s] :
            \E from \in {s, <<>>} : k \in DOMAIN old[from] /\ new[s][k] = old[from][k]
       /\ \A k \in DOMAIN old[<<>>] : \E s \in DOMAIN new : k \in DOMAIN new[s]

\* What a tidy file with no entry above its first header holds is storable: so
\* a user's options survive every number of saves and launches.
TidyIsStorable == (Tidy(text) /\ ~Headless(text)) => Storable(Loaded(text))
=============================================================================
