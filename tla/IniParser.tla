----------------------------- MODULE IniParser -----------------------------
(***************************************************************************)
(* The ini files every device of the program is configured from            *)
(* (src/iniparse/iniparser.c) and the dictionary they are read into        *)
(* (dictionary.c).  A text is a sequence of one-character strings.  The    *)
(* hash of a key only shortens comparisons and is left out: two keys are   *)
(* the same entry when they are equal.                                     *)
(***************************************************************************)
EXTENDS Integers, Sequences, SequencesExt

CONSTANTS Files,      \* files: [lines, map], map being what was written in them
          Entries,    \* the entries a program sets and unsets after loading
          Values,     \* the values it sets
          LineMax,    \* ASCIILINESZ
          DictMin,    \* DICTMINSZ
          SizeMax     \* bound: slots of a dictionary

NULL == <<"NULL">>            \* a value that is no text: the entry of a section
Empty == <<"NULL", "key">>    \* the key of an empty slot
NoDict == [size |-> 0, n |-> 0, slots |-> <<>>]

Upper == [A |-> "a", B |-> "b", K |-> "k", S |-> "s"]

VARIABLES dict,     \* the dictionary, NoDict when iniparser_load returned NULL
          map,      \* history: the entries the program should find
          loaded,   \* history: the file dict was read from, <<>> before
          grows     \* the dictionary_grow calls that still find memory

vars == <<dict, map, loaded, grows>>

----------------------------------------------------------------------------
(* dictionary.c                                                            *)

dictionary_new == [size |-> DictMin, n |-> 0, slots |-> [i \in 1 .. DictMin |-> <<Empty, NULL>>]]

SlotsOf(d, k) == {i \in 1 .. d.size : d.slots[i][1] = k}
Keys(d) == {d.slots[i][1] : i \in 1 .. d.size} \ {Empty}

\* dictionary_get, for a key that may be absent: the default is the caller's.
dictionary_get(d, k, def) ==
    IF SlotsOf(d, k) = {} THEN def ELSE d.slots[Min(SlotsOf(d, k))][2]

dictionary_grow(d) ==
    [d EXCEPT !.size = 2 * @, !.slots = @ \o [i \in 1 .. d.size |-> <<Empty, NULL>>]]

\* Mutant: the search for an empty slot does not start at n but takes it.
FreeSlotAtN(d) == d.n + 1

\* The slot of a new key: the first empty one from n on, around the end.
FreeSlot(d) ==
    LET free == SlotsOf(d, Empty)
        after == {i \in free : i > d.n}
    IN  IF after # {} THEN Min(after) ELSE Min(free)

\* dictionary_set; room says whether dictionary_grow gets its memory: [d, ok].
dictionary_set(d, k, v, room) ==
    LET full == d.n = d.size
        e == IF full THEN dictionary_grow(d) ELSE d
        i == FreeSlot(e)
    IN  IF SlotsOf(d, k) # {} THEN [d |-> [d EXCEPT !.slots[Min(SlotsOf(d, k))][2] = v], ok |-> TRUE]
        ELSE IF full /\ ~room THEN [d |-> d, ok |-> FALSE]
        ELSE [d |-> [e EXCEPT !.slots[i] = <<k, v>>, !.n = @ + 1], ok |-> TRUE]

dictionary_unset(d, k) ==
    IF SlotsOf(d, k) = {} THEN d
    ELSE [d EXCEPT !.slots[Min(SlotsOf(d, k))] = <<Empty, NULL>>, !.n = @ - 1]

----------------------------------------------------------------------------
(* iniparser_line: one logical line.                                       *)

strlwc(s, len) ==
    [i \in 1 .. Min({Len(s), len - 1}) |-> IF s[i] \in DOMAIN Upper THEN Upper[s[i]] ELSE s[i]]

strstrip(s) ==
    LET ink == {i \in 1 .. Len(s) : s[i] # " "}
    IN  IF ink = {} THEN <<>> ELSE SubSeq(s, Min(ink), Max(ink))

\* The longest prefix of s whose characters satisfy P, and what follows it.
Span(s, P(_)) ==
    LET stops == {i \in 1 .. Len(s) : ~P(s[i])} IN SubSeq(s, 1, Min(stops \cup {Len(s) + 1}) - 1)
After(s, n) == SubSeq(s, n + 1, Len(s))
SkipBlanks(s) == After(s, Len(Span(s, LAMBDA c : c = " ")))

\* sscanf "%[^=] = ...": the key and the text behind '=' and blanks, or no match.
KeyAndRest(s) ==
    LET k == Span(s, LAMBDA c : c # "=")
    IN  [ok |-> k # <<>> /\ Len(k) < Len(s), key |-> k, rest |-> SkipBlanks(After(s, Len(k) + 1))]

\* A value between quotes q: at least one character; the closing quote may be missing.
Quoted(rest, q) ==
    IF rest # <<>> /\ rest[1] = q THEN Span(Tail(rest), LAMBDA c : c # q) ELSE <<>>

Plain(rest) == Span(rest, LAMBDA c : c \notin {";", "#"})

\* [kind, section, key, value] of a line read while in the given section.
Line(kind, section, key, value) == [kind |-> kind, section |-> section, key |-> key, value |-> value]

Value(double, single, plain) ==
    IF double # <<>> THEN double
    ELSE IF single # <<>> THEN single
    ELSE IF plain \in {<<"\"", "\"">>, <<"'", "'">>} THEN <<>> ELSE plain

KeyLine(kr, section, len) ==
    Line(IF kr.ok THEN "value" ELSE "error", section, strlwc(strstrip(kr.key), len),
         Value(Quoted(kr.rest, "\""), Quoted(kr.rest, "'"), strstrip(Plain(kr.rest))))

SectionLine(name, section, len) ==
    Line("section", strlwc(strstrip(IF name = <<>> THEN section ELSE name), len), <<>>, NULL)

StrippedLine(line, section) ==
    IF line = <<>> \/ line[1] \in {"#", ";"} THEN Line("skip", section, <<>>, <<>>)
    ELSE IF line[1] = "[" /\ line[Len(line)] = "]"
    THEN SectionLine(Span(Tail(line), LAMBDA c : c # "]"), section, Len(line))
    ELSE KeyLine(KeyAndRest(line), section, Len(line))

iniparser_line(text, section) == StrippedLine(strstrip(text), section)

----------------------------------------------------------------------------
(* iniparser_load                                                          *)

Start == [d |-> dictionary_new, section |-> <<>>, kept |-> <<>>, errs |-> 0, stop |-> FALSE, long |-> FALSE]

\* A line that was read is stored, as a section or as a key of the current section.
\* Failing to grow stops the reading; what was read so far is returned all the same.
Stored(s, l, put) == [s EXCEPT !.d = put.d, !.section = l.section, !.stop = ~put.ok]

TakeLine(s, l, room) ==
    CASE l.kind = "skip" -> s
      [] l.kind = "error" -> [s EXCEPT !.errs = @ + 1]
      [] l.kind = "section" -> Stored(s, l, dictionary_set(s.d, l.section, l.value, room))
      [] l.kind = "value" ->
           Stored(s, l, dictionary_set(s.d, l.section \o <<":">> \o l.key, l.value, room))

\* A physical line, blanks at its end removed; one that ends in a backslash is kept
\* in the buffer, in front of the next.
LoadText(s, line, room) ==
    IF line # <<>> /\ line[Len(line)] = "\\" THEN [s EXCEPT !.kept = Front(line)]
    ELSE TakeLine([s EXCEPT !.kept = <<>>], iniparser_line(line, s.section), room)

LoadLine(s, buf, room) ==
    IF s.stop \/ Len(buf) = 0 THEN s
    ELSE IF Len(buf) >= LineMax - 1 THEN [s EXCEPT !.stop = TRUE, !.long = TRUE]
    ELSE LoadText(s, SubSeq(buf, 1, Max({0} \cup {i \in 1 .. Len(buf) : buf[i] # " "})), room)

\* Reading a file with memory for n dictionary_grow calls.
Read(lines, n) ==
    LET step[i \in 0 .. Len(lines)] ==
            IF i = 0 THEN Start
            ELSE LoadLine(step[i - 1], step[i - 1].kept \o lines[i], step[i - 1].d.size < DictMin * (2 ^ n))
    IN  step[Len(lines)]

iniparser_load(lines, n) ==
    LET s == Read(lines, n) IN IF s.long \/ s.errs > 0 THEN NoDict ELSE s.d

----------------------------------------------------------------------------
(* Reading and writing a dictionary.                                       *)

\* iniparser_getstring, iniparser_find_entry: the entry's name is lowered first.
iniparser_getstring(d, e, def) == dictionary_get(d, strlwc(e, LineMax + 1), def)

\* The keys without a colon, in slot order: iniparser_getnsec and iniparser_getsecname.
Sections(d) ==
    SelectSeq([i \in 1 .. d.size |-> d.slots[i][1]],
              LAMBDA k : k # Empty /\ \A i \in 1 .. Len(k) : k[i] # ":")

iniparser_getnsec(d) == Len(Sections(d))
iniparser_getsecname(d, i) == Sections(d)[i]

\* The slots of a section's keys: iniparser_getsecnkeys, iniparser_getseckeys.
iniparser_getseckeys(d, s) ==
    SelectSeq(d.slots, LAMBDA e : e[1] # Empty /\ IsPrefix(s \o <<":">>, e[1]))

\* iniparser_dumpsection_ini; a NULL value is written as an empty one.
iniparser_dumpsection_ini(d, s) ==
    LET keys == iniparser_getseckeys(d, s)
        line(e) == After(e[1], Len(s) + 1) \o <<" ", "=", " ">> \o (IF e[2] = NULL THEN <<>> ELSE e[2])
    IN  <<<<>>, <<"[">> \o s \o <<"]">>>> \o [i \in 1 .. Len(keys) |-> line(keys[i])] \o <<<<>>>>

iniparser_dump_ini(d) ==
    LET all == SelectSeq(d.slots, LAMBDA e : e[1] # Empty)
    IN  IF iniparser_getnsec(d) < 1
        THEN [i \in 1 .. Len(all) |-> all[i][1] \o <<" ", "=", " ">> \o all[i][2]]
        ELSE FlattenSeq([i \in 1 .. iniparser_getnsec(d) |->
                            iniparser_dumpsection_ini(d, iniparser_getsecname(d, i))])

----------------------------------------------------------------------------
Init == dict = NoDict /\ map = <<>> /\ loaded = <<>> /\ grows = 0

Load(f, n) ==
    /\ loaded = <<>>
    /\ dict' = iniparser_load(f.lines, n)
    /\ loaded' = f.lines
    /\ grows' = n
    /\ map' = [e \in Entries \cup DOMAIN f.map |->
                  IF e \in DOMAIN f.map THEN f.map[e] ELSE Empty]

\* iniparser_set by the program; it learns of a failure, so the entry stays absent.
iniparser_set(e, v) ==
    LET lc == strlwc(e, LineMax + 1)
        room == dict.size < SizeMax
        put == dictionary_set(dict, lc, v, room)
    IN  /\ dict # NoDict
        /\ dict' = put.d
        /\ map' = [map EXCEPT ![lc] = IF put.ok THEN v ELSE @]
        /\ UNCHANGED <<loaded, grows>>

iniparser_unset(e) ==
    LET lc == strlwc(e, LineMax + 1)
    IN  /\ dict # NoDict
        /\ dict' = dictionary_unset(dict, lc)
        /\ map' = [map EXCEPT ![lc] = Empty]
        /\ UNCHANGED <<loaded, grows>>

Next ==
    \/ \E f \in Files, n \in {0, 3} : Load(f, n)
    \/ \E e \in Entries : iniparser_unset(e) \/ \E v \in Values : iniparser_set(e, v)

Spec == Init /\ [][Next]_vars

----------------------------------------------------------------------------
(***************************************************************************)
(* What a file's author wrote (sections and keys in any case, quotes,      *)
(* comments, continued lines, keys given twice) and what the program set   *)
(* and unset since is exactly what the getters find, also after slots were *)
(* emptied, filled again and the dictionary grew; n counts the keys, so    *)
(* that the search for an empty slot ends.                                 *)
(***************************************************************************)
FindsWhatWasWritten ==
    dict # NoDict /\ ~Read(loaded, grows).stop =>
        /\ \A e \in DOMAIN map : iniparser_getstring(dict, e, Empty) = map[e]
        /\ Keys(dict) \subseteq DOMAIN map
        /\ dict.n = Cardinality(Keys(dict))
        /\ \A i, j \in 1 .. dict.size :
               i # j /\ dict.slots[i][1] # Empty => dict.slots[i][1] # dict.slots[j][1]

\* Dictionaries dump_ini can express: each key in a section that exists and with a
\* value readable without quotes, each section without a value.
PlainValue(v) ==
    v = <<>> \/ (/\ v[1] \notin {" ", "\"", "'"} /\ v[Len(v)] \notin {" ", "\\"}
                 /\ \A i \in 1 .. Len(v) : v[i] \notin {";", "#"})

Expressible(d) ==
    /\ iniparser_getnsec(d) >= 1
    /\ \A e \in ToSet(d.slots) :
        e[1] # Empty =>
            IF e[1] \in ToSet(Sections(d)) THEN e[2] = NULL
            ELSE /\ e[2] # NULL /\ PlainValue(e[2])
                 /\ \E s \in ToSet(Sections(d)) : IsPrefix(s \o <<":">>, e[1])

SameEntries(d, e) == {x \in ToSet(d.slots) : x[1] # Empty} = {x \in ToSet(e.slots) : x[1] # Empty}

(***************************************************************************)
(* Loading what iniparser_dump_ini wrote gives the same entries, for every *)
(* dictionary whose keys are all in sections and whose values need no      *)
(* quotes.                                                                 *)
(***************************************************************************)
DumpReloads ==
    dict # NoDict /\ Expressible(dict) =>
        SameEntries(iniparser_load(iniparser_dump_ini(dict), 3), dict)

(***************************************************************************)
(* "This function dumps a given dictionary into a loadable ini file"       *)
(* (iniparser.c:254), for whatever dictionary a file was loaded into.      *)
(***************************************************************************)
EveryDumpReloads ==
    dict # NoDict => SameEntries(iniparser_load(iniparser_dump_ini(dict), 3), dict)
=============================================================================
