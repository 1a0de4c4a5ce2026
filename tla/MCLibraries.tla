---------------------------- MODULE MCLibraries ----------------------------
(***************************************************************************)
(* The libraries no theorem is about, parsers and containers, each on      *)
(* small instances of its own.  They do not interact: a behaviour picks    *)
(* one of them, the unit, and runs it in the variables v1 .. v11, whose    *)
(* meaning is given by the INSTANCE of the unit.                           *)
(***************************************************************************)
EXTENDS Integers, Sequences, TLC

CONSTANTS None, e1, e2, e3, e4,
          Running,   \* the units of a run
          Repeats    \* whether senders of RTMP repeat a timestamp

VARIABLES unit, v1, v2, v3, v4, v5, v6, v7, v8, v9, v10, v11

vars == <<unit, v1, v2, v3, v4, v5, v6, v7, v8, v9, v10, v11>>

Messages == INSTANCE MCHttpMessages

Http == INSTANCE HttpParser WITH
    Scripts <- Messages!Scripts, LenMax <- 63, PauseMax <- 1,
    script <- v1, parser <- v2, eof <- v3

----------------------------------------------------------------------------
\* Files with what their authors wrote: letter case, blanks and comments;
\* quotes, keys given twice and empty values; continued lines; keys without a
\* section; a line that is none; a line that is too long.
Section == <<"NULL">>
File(lines, map) == [lines |-> lines, map |-> map]

Files ==
    {File(<< <<"#", "a">>, <<" ", "[", "S", "]">>, <<"A", "=", "1">>, <<>>,
             <<"k", " ", "=", " ", "x", " ", ";", " ", "y">> >>,
          (<<"s">> :> Section) @@ (<<"s", ":", "a">> :> <<"1">>) @@ (<<"s", ":", "k">> :> <<"x">>)),
     File(<< <<"[", "s", "]">>, <<"a", "=", " ", "\"", "x", ";", "y", " ", "\"", ";", "z">>,
             <<"b", "=", "'", "y", "#", "'">>, <<"a", "=", "'", "'">>, <<"k", "=", "\"", "\"">> >>,
          (<<"s">> :> Section) @@ (<<"s", ":", "a">> :> <<>>)
          @@ (<<"s", ":", "b">> :> <<"y", "#">>) @@ (<<"s", ":", "k">> :> <<>>)),
     File(<< <<"[", "s", " ", "]">>, <<"a", "=", "x", "\\">>, <<"y", "\\", " ">>, <<"z">>,
             <<"b", "=">>, <<"k", "=", ";", "z">>, <<"[", "B", "]">>, <<"a", "=", "x", " ", "y">> >>,
          (<<"s">> :> Section) @@ (<<"s", ":", "a">> :> <<"x", "y", "z">>)
          @@ (<<"s", ":", "b">> :> <<>>) @@ (<<"s", ":", "k">> :> <<>>)
          @@ (<<"b">> :> Section) @@ (<<"b", ":", "a">> :> <<"x", " ", "y">>)),
     File(<< <<"a", "=", "1">>, <<"b", " ", "=", " ", "x">> >>,
          (<<":", "a">> :> <<"1">>) @@ (<<":", "b">> :> <<"x">>)),
     File(<< <<"[", "s", "]">>, <<"a">> >>, <<>>),
     File(<< <<"[", "s", "]">>, <<"a", "=">> \o [i \in 1 .. 12 |-> "x"] >>, <<>>)}

Ini == INSTANCE IniParser WITH
    Files <- Files, Entries <- {<<"s", ":", "k">>, <<"s">>, <<"s", ":", "a">>},
    Values <- {Section, <<"1">>}, LineMax <- 14, DictMin <- 2, SizeMax <- 8,
    dict <- v1, map <- v2, loaded <- v3, grows <- v4

----------------------------------------------------------------------------
\* Packets with a large (0) and a medium (1) header: timestamps that rise, pass
\* Ts24, repeat and go back, other sizes and types, and an empty body.
Packet(type, ptype, ts, size) ==
    [type |-> type, ptype |-> ptype, ts |-> ts, size |-> size, info |-> 5]

Chunk == INSTANCE RtmpChunk WITH
    Channels <- {3, 330},
    Packets <- {Packet(0, 8, 0, 3), Packet(0, 8, 9, 5), Packet(1, 8, 0, 3), Packet(1, 8, 2, 3),
                Packet(1, 8, 9, 3), Packet(1, 9, 9, 3), Packet(1, 9, 9, 0), Packet(1, 8, 4, 5)},
    ChunkSizes <- {1, 3}, Default <- 2, Ts24 <- 7, TsMod <- 16, MaxMsgs <- 3,
    outPrev <- v1, outChunk <- v2, pending <- v3, wire <- v4, inPrev <- v5, inTs <- v6,
    inChunk <- v7, packet <- v8, sent <- v9, got <- v10, stale <- v11

----------------------------------------------------------------------------
Rb == INSTANCE RbTree WITH Keys <- 1 .. 5, tree <- v1, walk <- v2

\* "A", "a", "Q" and "Bb": two keys that are one for the ...Lower functions,
\* and two more that share a bucket.
HashKeys == {<<65>>, <<97>>, <<81>>, <<66, 98>>}

Hash == INSTANCE HashTable WITH
    Keys <- HashKeys, Values <- {1}, Entries <- {e1, e2, e3, e4},
    Size <- 10, HashMod <- 1024, lower <- TRUE,
    ht <- v1, it <- v2, map <- v3, stay <- v4, seen <- v5

----------------------------------------------------------------------------
Zero == v8 = 0 /\ v9 = 0 /\ v10 = 0 /\ v11 = 0

MCInit ==
    /\ unit \in Running
    /\ \/ unit = "http"  /\ Http!Init /\ v4 = 0 /\ v5 = 0 /\ v6 = 0 /\ v7 = 0 /\ Zero
       \/ unit = "ini"   /\ Ini!Init  /\ v5 = 0 /\ v6 = 0 /\ v7 = 0 /\ Zero
       \/ unit = "chunk" /\ Chunk!Init
       \/ unit = "rb"    /\ Rb!Init   /\ v3 = 0 /\ v4 = 0 /\ v5 = 0 /\ v6 = 0 /\ v7 = 0 /\ Zero
       \/ unit = "hash"  /\ Hash!Init /\ v6 = 0 /\ v7 = 0 /\ Zero

MCNext ==
    \/ unit = "http"  /\ Http!Next /\ UNCHANGED <<unit, v4, v5, v6, v7, v8, v9, v10, v11>>
    \/ unit = "ini"   /\ Ini!Next  /\ UNCHANGED <<unit, v5, v6, v7, v8, v9, v10, v11>>
    \/ unit = "chunk" /\ Chunk!Next /\ UNCHANGED unit
    \/ unit = "rb"    /\ Rb!Next   /\ UNCHANGED <<unit, v3, v4, v5, v6, v7, v8, v9, v10, v11>>
    \/ unit = "hash"  /\ Hash!Next /\ UNCHANGED <<unit, v6, v7, v8, v9, v10, v11>>

MCSpec == MCInit /\ [][MCNext]_vars

----------------------------------------------------------------------------
\* HTTP: the pieces in which a stream arrives, and pauses in the callbacks,
\* change neither the callbacks nor the error (http_parser_execute).
HttpCutsInvisible == unit = "http" => Http!CutsInvisible

\* HTTP: a stream of well-formed messages is reported as what it is made of, a
\* length that does not fit its counter is refused, and a URL is split into its
\* parts (http_parser_execute, http_parser_parse_url).
HttpMessagesReported == unit = "http" => Http!MessagesReported

\* ini: the getters find what the file's author wrote and the program set and
\* unset since, and loading what iniparser_dump_ini wrote gives the same
\* entries, when every key is in a section and no value needs quotes
\* (iniparser_load, iniparser_set, dictionary_set, iniparser_dump_ini).
IniReadsBack == unit = "ini" => Ini!FindsWhatWasWritten /\ Ini!DumpReloads

\* RTMP: messages arrive whole, with their type and absolute timestamp, in the
\* order of their channel, whatever their headers left out and however their
\* chunks were interleaved (RTMP_SendPacket, RTMP_ReadPacket).
RtmpDelivered == unit = "chunk" => Chunk!Delivered

\* RBTREE_First and RBTREE_Next visit exactly the inserted keys in rising
\* order, with every back link right, after any insertions and erasures
\* (rbtree.c).
RbOrdered == unit = "rb" => Rb!Ordered

\* HASH_Get finds the last value set for a key, and a walk with HASH_ItFirst
\* and HASH_ItNext visits an entry that stays in the table exactly once,
\* although others come and go meanwhile (hash.c).
HashSound == unit = "hash" => Hash!IsMap /\ Hash!WalkVisitsOnce
=============================================================================
