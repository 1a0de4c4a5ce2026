---------------------------- MODULE MediaProofs ----------------------------
(***************************************************************************)
(* Proofs about the parts of the media chain, for every value of their     *)
(* constants: the driver table (AmioDrv), the streams of a device          *)
(* (AmioStream), the delay buffer (DelayBuf), the tree of ports (Port) and *)
(* the session server (Negan).  They share no state; each is an instance   *)
(* of its own here.                                                        *)
(***************************************************************************)
EXTENDS Integers, Sequences, SequencesExt, SequenceTheorems, WellFoundedInduction,
        TLAPS

CONSTANTS Drivers, Chnls, ListMax, None
VARIABLES init, total, factory, drv, list, claimed

Drv == INSTANCE AmioDrv

CONSTANTS Spf, Channels, Ptime, MaxDelay, RecalcTime, Wsola, LevelMax
VARIABLES len, eff, level, last_op, recalc, max_level

Delay == INSTANCE DelayBuf

CONSTANTS Ports, SlotMax
VARIABLES subs, master, slot, todo, called, failed, own

Bus == INSTANCE Port WITH list <- subs

CONSTANTS Clients, Sessions, MsgLen, BufMax, Sent
VARIABLES sessions, clients, peer, cc, walk, crashed

Neg == INSTANCE Negan WITH failed <- crashed

CONSTANTS Driver, Chans, Lookup
VARIABLES ch, st, port, call, ub

Str == INSTANCE AmioStream

----------------------------------------------------------------------------
(***************************************************************************)
(* The driver table.  The list index that AMIO_DevLookup gives for a       *)
(* listed device leads back to the channel it was asked for, for any       *)
(* number of drivers and channels, and also after the drivers were         *)
(* unloaded, loaded and activated again, when the list holds a device more *)
(* than once; for a device that is not listed it leads to the first one.   *)
(*                                                                         *)
(* A device that is on the list has its channels there, in order, from the *)
(* start index of its last activation on: earlier entries stay and are     *)
(* only hidden.  The first device of the list has its channels from 0 on,  *)
(* which is the start index of every device that is not listed.            *)
(***************************************************************************)
ListedAt(L, s, d) ==
    s + Chnls <= Len(L) /\ \A i \in 0..Chnls-1 : L[s + i + 1] = <<d, i>>

Placed(d) == drv[d].cnt = Chnls /\ ListedAt(list, drv[d].start, d)

TypeInv ==
    /\ total \in Nat
    /\ drv \in [Drv!Slots -> [cnt : Nat, start : Nat, dflt : Int]]
    /\ list \in Seq(Drivers \X Nat)

DrvInv ==
    /\ TypeInv
    /\ \A d \in Drivers : (\E k \in 1..Len(list) : list[k][1] = d) => Placed(d)
    /\ \A d \in Drivers : Placed(d) \/ (drv[d].cnt = 0 /\ drv[d].start = 0)
    /\ list # <<>> => ListedAt(list, 0, list[1][1])

LEMMA DriverFacts ==
    ASSUME Drv!AmioDrvConstants
    PROVE  Drv!Count \in Nat /\ Chnls \in Nat /\ Drivers \subseteq Nat /\ Drivers \subseteq Drv!Slots
  <1>1. PICK n \in Nat : Drivers = 0..n BY DEF Drv!AmioDrvConstants
  <1>2. \E d \in Drivers : \A e \in Drivers : e <= d
    <2>1. n \in Drivers /\ \A e \in Drivers : e <= n BY <1>1
    <2> QED BY <2>1
  <1>3. PICK x : x = CHOOSE d \in Drivers : \A e \in Drivers : e <= d OBVIOUS
  <1>4. x \in Drivers BY <1>2, <1>3
  <1>5. Drv!Count = 1 + x BY <1>3 DEF Drv!Count
  <1> QED BY <1>1, <1>4, <1>5 DEF Drv!AmioDrvConstants, Drv!Slots

LEMMA InitDrv == ASSUME Drv!AmioDrvConstants, Drv!Init PROVE DrvInv
  <1>1. Len(list) = 0 /\ list \in Seq(Drivers \X Nat) /\ total \in Nat BY DEF Drv!Init
  <1>2. drv \in [Drv!Slots -> [cnt : Nat, start : Nat, dflt : Int]] BY DEF Drv!Init
  <1>3. \A d \in Drivers : drv[d].cnt = 0 /\ drv[d].start = 0 BY DriverFacts DEF Drv!Init
  <1>4. list = <<>> BY DEF Drv!Init
  <1> QED BY <1>1, <1>2, <1>3, <1>4 DEF DrvInv, TypeInv

LEMMA Appended ==
    ASSUME NEW S, NEW L \in Seq(S), NEW X \in Seq(S), Chnls \in Nat
    PROVE  /\ L \o X \in Seq(S) /\ Len(L \o X) = Len(L) + Len(X)
           /\ \A k \in 1..Len(L) : (L \o X)[k] = L[k]
           /\ \A i \in 1..Len(X) : (L \o X)[Len(L) + i] = X[i]
           /\ \A s \in Nat : \A d : ListedAt(L, s, d) => ListedAt(L \o X, s, d)
  <1>1. /\ L \o X \in Seq(S) /\ Len(L \o X) = Len(L) + Len(X) /\ Len(L) \in Nat /\ Len(X) \in Nat
        /\ \A k \in 1..Len(L) : (L \o X)[k] = L[k]
        /\ \A i \in 1..Len(X) : (L \o X)[Len(L) + i] = X[i]
    OBVIOUS
  <1>2. ASSUME NEW s \in Nat, NEW d, ListedAt(L, s, d) PROVE ListedAt(L \o X, s, d)
    <2>1. s + Chnls <= Len(L) BY <1>2 DEF ListedAt
    <2>2. ASSUME NEW i \in 0..Chnls-1 PROVE (L \o X)[s + i + 1] = <<d, i>>
      <3>1. PICK k \in 1..Len(L) : k = s + i + 1 BY <1>1, <2>1
      <3>2. L[k] = <<d, i>> BY <1>2, <3>1 DEF ListedAt
      <3> QED BY <1>1, <3>1, <3>2
    <2>3. s + Chnls <= Len(L \o X) BY <1>1, <2>1
    <2> QED BY <2>2, <2>3 DEF ListedAt
  <1> QED BY <1>1, <1>2

LEMMA ActiveStep ==
    ASSUME Drv!AmioDrvConstants, DrvInv, NEW d \in Drivers, NEW o \in Drv!Outcomes, Drv!DevActive(d, o)
    PROVE  DrvInv'
  <1>0. /\ Chnls \in Nat /\ d \in Drv!Slots /\ d \in Nat /\ Len(list) \in Nat
        /\ list \in Seq(Drivers \X Nat) /\ total \in Nat
        /\ drv \in [Drv!Slots -> [cnt : Nat, start : Nat, dflt : Int]]
    BY DriverFacts DEF DrvInv, TypeInv
  <1>1. CASE UNCHANGED <<drv, list>>
    <2>1. total' = total BY DEF Drv!DevActive
    <2> QED BY <1>1, <2>1 DEF DrvInv, TypeInv, Placed
  <1>2. CASE drv' = [drv EXCEPT ![d].dflt = Drv!Invalid] /\ UNCHANGED list
    <2>1. total' = total BY DEF Drv!DevActive
    <2>x. PICK x : x = [drv[d] EXCEPT !.dflt = Drv!Invalid] OBVIOUS
    <2>2. /\ x \in [cnt : Nat, start : Nat, dflt : Int]
          /\ x.cnt = drv[d].cnt /\ x.start = drv[d].start
      <3>1. drv[d] \in [cnt : Nat, start : Nat, dflt : Int] /\ Drv!Invalid \in Int
        BY <1>0 DEF Drv!Invalid
      <3> QED BY <2>x, <3>1
    <2>3. drv' = [drv EXCEPT ![d] = x] BY <1>2, <2>x
    <2>4. drv' \in [Drv!Slots -> [cnt : Nat, start : Nat, dflt : Int]] BY <1>0, <2>2, <2>3
    <2>5. \A e \in Drivers : drv'[e].cnt = drv[e].cnt /\ drv'[e].start = drv[e].start
      BY <1>0, <2>2, <2>3, DriverFacts
    <2>6. \A e \in Drivers : Placed(e) => Placed(e)' BY <1>2, <2>5 DEF Placed
    <2>7. \A e \in Drivers : Placed(e)' \/ (drv'[e].cnt = 0 /\ drv'[e].start = 0)
      BY <2>5, <2>6 DEF DrvInv
    <2> QED BY <1>0, <1>2, <2>1, <2>4, <2>6, <2>7 DEF DrvInv, TypeInv
  <1>3. CASE /\ drv' = [drv EXCEPT ![d] = [cnt |-> Chnls, start |-> Len(list), dflt |-> 0]]
             /\ list' = list \o Drv!Listed(d)
    <2>0. total' = total BY DEF Drv!DevActive
    <2>x. PICK X : X = Drv!Listed(d) OBVIOUS
    <2>1. /\ X \in Seq(Drivers \X Nat) /\ Len(X) = Chnls
          /\ \A i \in 1..Chnls : X[i] = <<d, i - 1>>
      <3>1. \A i \in 1..Chnls : <<d, i - 1>> \in Drivers \X Nat BY <1>0
      <3>2. X \in [1..Chnls -> Drivers \X Nat] BY <2>x, <3>1 DEF Drv!Listed
      <3> QED BY <1>0, <2>x, <3>2 DEF Drv!Listed
    <2>2. list' = list \o X BY <1>3, <2>x
    <2>3. /\ list' \in Seq(Drivers \X Nat) /\ Len(list') = Len(list) + Chnls
          /\ \A k \in 1..Len(list) : list'[k] = list[k]
          /\ \A i \in 1..Chnls : list'[Len(list) + i] = X[i]
          /\ \A s \in Nat : \A e : ListedAt(list, s, e) => ListedAt(list', s, e)
      <3> DEFINE T == Drivers \X Nat
      <3>1. list \in Seq(T) /\ X \in Seq(T) /\ Chnls \in Nat BY <1>0, <2>1
      <3> HIDE DEF T
      <3>2. /\ list \o X \in Seq(T) /\ Len(list \o X) = Len(list) + Len(X)
            /\ \A k \in 1..Len(list) : (list \o X)[k] = list[k]
            /\ \A i \in 1..Len(X) : (list \o X)[Len(list) + i] = X[i]
            /\ \A s \in Nat : \A e : ListedAt(list, s, e) => ListedAt(list \o X, s, e)
        BY <3>1, Appended
      <3>3. list' \in Seq(Drivers \X Nat) BY <2>2, <3>2 DEF T
      <3> QED BY <2>1, <2>2, <3>2, <3>3
    <2>4. \A i \in 1..Chnls : list'[Len(list) + i] = <<d, i - 1>> BY <2>1, <2>3
    <2>5. ListedAt(list', Len(list), d)
      <3> SUFFICES ASSUME NEW i \in 0..Chnls-1 PROVE list'[Len(list) + i + 1] = <<d, i>>
        BY <1>0, <2>3, SMTT(30) DEF ListedAt
      <3>1. PICK j \in 1..Chnls : j = i + 1 BY <1>0
      <3>2. Len(list) + i + 1 = Len(list) + j /\ j - 1 = i BY <1>0, <3>1
      <3> QED BY <2>4, <3>2
    <2>6. drv' \in [Drv!Slots -> [cnt : Nat, start : Nat, dflt : Int]] BY <1>0, <1>3
    <2>7. drv'[d].cnt = Chnls /\ drv'[d].start = Len(list) BY <1>0, <1>3
    <2>8. \A e \in Drivers \ {d} : drv'[e] = drv[e] BY <1>0, <1>3, DriverFacts
    <2>9. ASSUME NEW e \in Drivers, \E k \in 1..Len(list') : list'[k][1] = e PROVE Placed(e)'
      <3>1. CASE e = d BY <2>5, <2>7, <3>1 DEF Placed
      <3>2. CASE e # d
        <4>1. PICK k \in 1..Len(list') : list'[k][1] = e BY <2>9
        <4>2. k \in 1..Len(list)
          <5> SUFFICES ASSUME k > Len(list) PROVE FALSE BY <1>0, <2>3
          <5>1. PICK i \in 1..Chnls : k = Len(list) + i
            <6>1. k - Len(list) \in 1..Chnls /\ k = Len(list) + (k - Len(list)) BY <1>0, <2>3
            <6> QED BY <6>1
          <5>2. list'[k] = <<d, i - 1>> BY <2>4, <5>1
          <5> QED BY <4>1, <3>2, <5>2
        <4>3. Placed(e) BY <4>1, <4>2, <2>3 DEF DrvInv
        <4>4. drv'[e] = drv[e] /\ drv[e].start \in Nat BY <1>0, <2>8, <3>2, DriverFacts
        <4> QED BY <2>3, <4>3, <4>4 DEF Placed
      <3> QED BY <3>1, <3>2
    <2>10. ASSUME NEW e \in Drivers PROVE Placed(e)' \/ (drv'[e].cnt = 0 /\ drv'[e].start = 0)
      <3>1. CASE e = d BY <2>5, <2>7, <3>1 DEF Placed
      <3>2. CASE e # d
        <4>1. drv'[e] = drv[e] /\ drv[e].start \in Nat BY <1>0, <2>8, <3>2, DriverFacts
        <4>2. Placed(e) => Placed(e)' BY <2>3, <4>1 DEF Placed
        <4> QED BY <4>1, <4>2 DEF DrvInv
      <3> QED BY <3>1, <3>2
    <2>11. ASSUME list' # <<>> PROVE ListedAt(list', 0, list'[1][1])
      <3>1. CASE list # <<>>
        <4>1. 1 \in 1..Len(list) BY <1>0, <3>1
        <4>2. list'[1] = list[1] BY <2>3, <4>1
        <4>3. ListedAt(list, 0, list[1][1]) BY <3>1 DEF DrvInv
        <4> QED BY <2>3, <4>2, <4>3
      <3>2. CASE list = <<>>
        <4>1. Len(list) = 0 BY <3>2
        <4>2. ListedAt(list', 0, d) BY <2>5, <4>1
        <4>3. Chnls # 0 BY <1>0, <2>3, <2>11, <4>1
        <4>4. list'[1] = <<d, 0>>
          <5>1. 0 \in 0..Chnls-1 BY <1>0, <4>3
          <5>2. list'[0 + 0 + 1] = <<d, 0>> BY <4>2, <5>1 DEF ListedAt
          <5> QED BY <5>2
        <4> QED BY <4>2, <4>4
      <3> QED BY <3>1, <3>2
    <2> QED BY <1>0, <2>0, <2>3, <2>6, <2>9, <2>10, <2>11 DEF DrvInv, TypeInv
  <1> QED BY <1>1, <1>2, <1>3 DEF Drv!DevActive

LEMMA DrvStep == ASSUME Drv!AmioDrvConstants, DrvInv, [Drv!Next]_Drv!vars PROVE DrvInv'
  <1>1. ASSUME total' \in Nat, UNCHANGED <<drv, list>> PROVE DrvInv'
    BY <1>1 DEF DrvInv, TypeInv, Placed
  <1>2. ASSUME NEW made \in 0..Drv!Count, Drv!DrvLoad(made) PROVE DrvInv'
    <2>1. total' = total \/ total' = made + 1 BY <1>2 DEF Drv!DrvLoad
    <2>2. total' \in Nat BY <2>1, DriverFacts DEF DrvInv, TypeInv
    <2> QED BY <1>1, <1>2, <2>2 DEF Drv!DrvLoad
  <1>3. CASE Drv!DrvUnload BY <1>1, <1>3 DEF Drv!DrvUnload, DrvInv, TypeInv
  <1>4. ASSUME NEW d \in Drivers, NEW o \in Drv!Outcomes, Drv!DevRefresh(d, o) PROVE DrvInv'
    BY <1>1, <1>4 DEF Drv!DevRefresh, DrvInv, TypeInv
  <1>5. CASE UNCHANGED Drv!vars BY <1>1, <1>5 DEF Drv!vars, DrvInv, TypeInv
  <1> QED BY <1>2, <1>3, <1>4, <1>5, ActiveStep DEF Drv!Next

LEMMA LookupListed ==
    ASSUME Drv!AmioDrvConstants, DrvInv, NEW d \in Drivers, NEW i \in 0..Chnls-1,
           Drv!LookupDrv(d), <<d, i>> \in Drv!ToSet(list)
    PROVE  Drv!LookupDev(Drv!DevLookup(d, i)) = <<d, i>>
  <1>1. /\ Chnls \in Nat /\ Len(list) \in Nat /\ total \in Nat /\ d \in Nat
        /\ drv[d].start \in Nat /\ list \in Seq(Drivers \X Nat)
    BY DriverFacts DEF DrvInv, TypeInv
  <1>2. PICK k \in 1..Len(list) : list[k] = <<d, i>> BY SMTT(30), <1>1 DEF Drv!ToSet
  <1>3. Placed(d) BY <1>2 DEF DrvInv
  <1>4. PICK at \in Nat : at = drv[d].start + i BY <1>1
  <1>5. at < Len(list) /\ list[at + 1] = <<d, i>>
    <2>1. drv[d].start + Chnls <= Len(list) /\ list[drv[d].start + i + 1] = <<d, i>>
      BY <1>3 DEF Placed, ListedAt
    <2>2. PICK s \in Nat : s = drv[d].start BY <1>1
    <2>3. s + Chnls <= Len(list) /\ at = s + i BY <1>4, <2>1, <2>2
    <2>4. at < Len(list) /\ at + 1 = s + i + 1 BY <1>1, <2>3
    <2> QED BY <2>1, <2>2, <2>4
  <1>6. Drv!Entry(at) = <<d, i>> BY <1>5 DEF Drv!Entry
  <1>7. ~(d >= total) /\ ~(i >= drv[d].cnt) BY <1>1, <1>3 DEF Drv!LookupDrv, Placed
  <1>8. Drv!LookupDev(at) = <<d, i>>
    <2>1. at >= 0 /\ ~(at < 0) BY <1>4
    <2>2. <<d, i>>[1] = d /\ <<d, i>>[2] = i OBVIOUS
    <2> QED BY <1>6, <1>7, <2>1, <2>2, Zenon DEF Drv!LookupDev
  <1> QED BY <1>4, <1>8 DEF Drv!DevLookup

\* A device without a place in the list: its start index is 0.
LEMMA LookupUnlisted ==
    ASSUME Drv!AmioDrvConstants, DrvInv, NEW d \in Drivers, NEW i \in 0..Chnls-1,
           <<d, i>> \notin Drv!ToSet(list)
    PROVE  Drv!LookupDev(Drv!DevLookup(d, i)) =
              IF list # <<>> /\ list[1][1] < total THEN <<list[1][1], i>> ELSE <<-1, -1>>
  <1>1. /\ Chnls \in Nat /\ Len(list) \in Nat /\ total \in Nat /\ i \in Nat /\ i < Chnls
        /\ list \in Seq(Drivers \X Nat)
    BY DriverFacts DEF DrvInv, TypeInv
  <1>2. ~Placed(d)
    <2> SUFFICES ASSUME Placed(d) PROVE FALSE OBVIOUS
    <2>1. PICK s \in Nat : s = drv[d].start BY DriverFacts DEF DrvInv, TypeInv
    <2>2. s + Chnls <= Len(list) /\ list[s + i + 1] = <<d, i>>
      BY <2>1 DEF Placed, ListedAt
    <2>3. PICK k \in 1..Len(list) : k = s + i + 1 BY <1>1, <2>2
    <2>4. k \in DOMAIN list /\ list[k] = <<d, i>> BY <1>1, <2>2, <2>3
    <2>5. <<d, i>> \in Drv!ToSet(list) BY <2>4 DEF Drv!ToSet
    <2> QED BY <2>5
  <1>3. drv[d].start = 0 BY <1>2 DEF DrvInv
  <1>4. Drv!DevLookup(d, i) = i BY <1>1, <1>3 DEF Drv!DevLookup
  <1>5. CASE list = <<>>
    <2>1. Drv!Entry(i) = <<0, 0>> BY <1>1, <1>5 DEF Drv!Entry
    <2>2. 0 \in Drivers BY DEF Drv!AmioDrvConstants
    <2>3. ~Placed(0)
      <3> SUFFICES ASSUME Placed(0) PROVE FALSE OBVIOUS
      <3>1. PICK s \in Nat : s = drv[0].start BY <2>2, DriverFacts DEF DrvInv, TypeInv
      <3>2. s + Chnls <= Len(list) /\ Len(list) = 0 BY <1>5, <3>1 DEF Placed, ListedAt
      <3> QED BY <1>1, <3>2
    <2>4. drv[0].cnt = 0 BY <2>2, <2>3 DEF DrvInv
    <2>5. Drv!LookupDev(i) = <<-1, -1>> BY <1>1, <2>1, <2>4 DEF Drv!LookupDev
    <2> QED BY <1>4, <1>5, <2>5
  <1>6. CASE list # <<>>
    <2>1. PICK f : f = list[1][1] OBVIOUS
    <2>2. f \in Drivers /\ 1 \in 1..Len(list)
      <3>1. 1 \in 1..Len(list) BY <1>1, <1>6
      <3> QED BY <1>1, <2>1, <3>1
    <2>3. ListedAt(list, 0, f) BY <1>6, <2>1 DEF DrvInv
    <2>4. list[0 + i + 1] = <<f, i>> /\ 0 + Chnls <= Len(list) BY <2>3 DEF ListedAt
    <2>5. i < Len(list) /\ list[i + 1] = <<f, i>> BY <1>1, <2>4
    <2>6. Drv!Entry(i) = <<f, i>> BY <2>5 DEF Drv!Entry
    <2>7. drv[f].cnt = Chnls BY <2>1, <2>2 DEF DrvInv, Placed
    <2>8. f \in Nat BY <2>2, DriverFacts
    <2>9. i >= 0 /\ ~(i < 0) /\ ~(i >= drv[f].cnt) BY <1>1, <2>7
    <2>10. <<f, i>>[1] = f /\ <<f, i>>[2] = i OBVIOUS
    <2>11. Drv!LookupDev(i) = IF f >= total THEN <<-1, -1>> ELSE <<f, i>>
      BY <2>6, <2>9, <2>10, Zenon DEF Drv!LookupDev
    <2>12. f >= total <=> ~(f < total) BY <1>1, <2>8
    <2> QED BY <1>4, <1>6, <2>1, <2>11, <2>12
  <1> QED BY <1>5, <1>6

LEMMA DrvLookup == ASSUME Drv!AmioDrvConstants, DrvInv PROVE Drv!AmioLookupRight
  BY LookupListed, LookupUnlisted DEF Drv!AmioLookupRight

\* The index that AMIO_DevLookup gives for a channel leads lookup_dev to that
\* channel of that device if the device was ever activated, and otherwise to
\* that channel of the device activated first or to none, after any loading,
\* unloading, activation and refreshing of any number of drivers (amio_drv.c).
THEOREM LookupIsRight == ASSUME Drv!AmioDrvConstants PROVE Drv!Spec => []Drv!AmioLookupRight
  <1>1. Drv!Init => DrvInv BY InitDrv
  <1>2. DrvInv /\ [Drv!Next]_Drv!vars => DrvInv' BY DrvStep
  <1>3. DrvInv => Drv!AmioLookupRight BY DrvLookup
  <1> QED BY <1>1, <1>2, <1>3, PTL DEF Drv!Spec

----------------------------------------------------------------------------
(***************************************************************************)
(* The delay buffer.  A put that writes leaves at least a frame, and a get *)
(* that takes one from at most MaxCnt samples leaves room for the frame    *)
(* WSOLA may write back.  A put that fails after update has shrunk the     *)
(* buffer leaves more than a frame, because eff_cnt never falls below half *)
(* a frame: it starts at half of the buffer, and the level it is learned   *)
(* from is at least 1, because the timer cannot run out before any call.   *)
(***************************************************************************)
DelayInv ==
    /\ len \in Nat /\ Delay!DelayFits
    /\ eff \in Nat /\ eff >= Spf \div 2
    /\ level \in Nat /\ max_level \in Nat
    /\ recalc \in Nat \ {0}

\* The buffer holds at least one frame: MaxDelay is at least one frame time.
LEMMA RoomForAFrame ==
    ASSUME Delay!DelayConstants PROVE Delay!MaxCnt \in Nat /\ Delay!MaxCnt >= Spf
  <1> USE DEF Delay!DelayConstants
  <1>1. PICK a \in Nat : a = Spf * MaxDelay
    OBVIOUS
  <1>2. Delay!MaxCnt = a \div Ptime
    BY <1>1 DEF Delay!MaxCnt
  <1>3. PICK m \in Nat : m = a \div Ptime
    OBVIOUS
  <1>4. PICK r \in 0 .. Ptime - 1 : a = Ptime * m + r
    <2>1. a % Ptime \in 0 .. Ptime - 1 /\ a = Ptime * (a \div Ptime) + (a % Ptime)
      OBVIOUS
    <2> QED BY <2>1, <1>3
  <1>5. a >= Spf * Ptime
    <2>1. PICK e \in Nat : MaxDelay = Ptime + e
      OBVIOUS
    <2>2. Spf * MaxDelay = Spf * Ptime + Spf * e /\ Spf * e >= 0
      BY <2>1
    <2> QED BY <1>1, <2>2
  <1>6. ASSUME m < Spf PROVE FALSE
    <2>0. Spf - (m + 1) \in Nat /\ Spf = m + 1 + (Spf - (m + 1))
      BY <1>6
    <2>1. PICK e \in Nat : Spf = m + 1 + e
      BY <2>0
    <2>2. Spf * Ptime = Ptime * m + Ptime + Ptime * e /\ Ptime * e >= 0
      BY <2>1
    <2> QED BY <2>2, <1>4, <1>5
  <1> QED BY <1>2, <1>3, <1>6

\* shrink_buffer leaves between nothing and all of what there was.
LEMMA ShrunkFacts ==
    ASSUME NEW l \in Nat, NEW n \in Nat, NEW k \in Delay!Shrunk(l, n)
    PROVE  k \in Nat /\ k <= l
  BY DEF Delay!Shrunk

\* After the overflow check of put there is room for a frame.
LEMMA FittedFacts ==
    ASSUME Delay!DelayConstants, NEW l \in Nat, l <= Delay!MaxCnt, NEW k \in Delay!Fitted(l)
    PROVE  k \in Nat /\ k + Spf <= Delay!MaxCnt
  <1> USE RoomForAFrame DEF Delay!DelayConstants
  <1>1. CASE l + Spf <= Delay!MaxCnt
    BY <1>1 DEF Delay!Fitted
  <1>2. CASE l + Spf > Delay!MaxCnt
    <2>1. PICK j \in IF Wsola THEN Delay!Shrunk(l, l + Spf - Delay!MaxCnt) ELSE {l} :
             k = IF j + Spf > Delay!MaxCnt THEN Delay!MaxCnt - Spf ELSE j
      BY <1>2 DEF Delay!Fitted
    <2>2. j \in Nat
      BY <1>2, <2>1, ShrunkFacts
    <2> QED BY <2>1, <2>2
  <1> QED BY <1>1, <1>2

LEMMA RoundUpFacts ==
    ASSUME Delay!DelayConstants, NEW n \in Nat
    PROVE  Delay!RoundUp(n) \in Nat /\ Delay!RoundUp(n) >= n
  <1>1. PICK c \in Nat \ {0} : c = Channels BY DEF Delay!DelayConstants
  <1>2. PICK a \in Nat : a = n + c - 1 BY <1>1
  <1>3. PICK q \in Nat, r \in 0 .. c - 1 : q = a \div c /\ a = c * q + r
    <2>1. a \div c \in Nat /\ a % c \in 0 .. c - 1 /\ a = c * (a \div c) + (a % c) OBVIOUS
    <2> QED BY <2>1
  <1>4. c * q >= n /\ c * q \in Nat BY <1>2, <1>3
  <1>5. Delay!RoundUp(n) = q * c BY <1>1, <1>2, <1>3 DEF Delay!RoundUp
  <1>6. q * c = c * q OBVIOUS
  <1> QED BY <1>4, <1>5, <1>6

\* The average of AGC is not below either of its arguments' lower bound.
LEMMA AgcFacts ==
    ASSUME NEW h \in Nat, NEW c \in Nat, NEW t \in Nat, c >= h, t >= h
    PROVE  Delay!Agc(c, t) \in Nat /\ Delay!Agc(c, t) >= h
  BY DEF Delay!Agc

LEMMA UpdateKeeps ==
    ASSUME Delay!DelayConstants, DelayInv, NEW op, Delay!Update(op)
    PROVE  /\ eff' \in Nat /\ eff' >= Spf \div 2
           /\ level' \in Nat /\ max_level' \in Nat /\ recalc' \in Nat \ {0}
  <1> USE DEF DelayInv
  <1>0. PICK h \in Nat : h = Spf \div 2 /\ h <= Spf BY DEF Delay!DelayConstants
  <1>1. CASE op = last_op BY <1>1 DEF Delay!Update
  <1>2. CASE op # last_op
    <2>1. PICK top \in Nat : top = IF level > max_level THEN level ELSE max_level OBVIOUS
    <2>2. PICK x \in Nat : x = level * Ptime BY DEF Delay!DelayConstants
    <2>3. PICK left \in Int : left = recalc - (x \div 2) BY <2>2
    <2>4. /\ level' = 1
          /\ IF left <= 0
             THEN /\ eff' = Delay!RoundUp(Delay!Agc(eff, top * Spf))
                  /\ max_level' = 0 /\ recalc' = RecalcTime
             ELSE max_level' = top /\ recalc' = left /\ eff' = eff
      BY <1>2, <2>1, <2>2, <2>3 DEF Delay!Update
    <2>5. CASE left <= 0
      <3>1. top # 0
        <4> SUFFICES ASSUME top = 0 PROVE FALSE OBVIOUS
        <4>1. level = 0 BY <2>1
        <4>2. x = 0 BY <2>2, <4>1 DEF Delay!DelayConstants
        <4> QED BY <2>3, <2>5, <4>2
      <3>2. PICK t \in Nat : t = top * Spf /\ t >= Spf
        <4>1. PICK e \in Nat : top = 1 + e
          <5>1. top - 1 \in Nat /\ top = 1 + (top - 1) BY <3>1
          <5> QED BY <5>1
        <4>2. top * Spf = Spf + e * Spf /\ e * Spf >= 0 /\ top * Spf \in Nat
          BY <4>1 DEF Delay!DelayConstants
        <4> QED BY <4>2 DEF Delay!DelayConstants
      <3>3. t >= h /\ eff >= h BY <1>0, <3>2 DEF Delay!DelayConstants
      <3>4. Delay!Agc(eff, t) \in Nat /\ Delay!Agc(eff, t) >= h BY <3>3, AgcFacts
      <3>5. PICK g \in Nat : g = Delay!Agc(eff, t) /\ g >= h BY <3>4
      <3>6. Delay!RoundUp(g) \in Nat /\ Delay!RoundUp(g) >= h
        <4>1. Delay!RoundUp(g) \in Nat /\ Delay!RoundUp(g) >= g BY RoundUpFacts
        <4> QED BY <3>5, <4>1
      <3>7. eff' = Delay!RoundUp(g) BY <2>4, <2>5, <3>2, <3>5
      <3> QED BY <1>0, <2>4, <2>5, <3>6, <3>7 DEF Delay!DelayConstants
    <2>6. CASE ~(left <= 0) BY <2>1, <2>3, <2>4, <2>6
    <2> QED BY <2>5, <2>6
  <1> QED BY <1>1, <1>2

\* What update leaves of the buffer is all of it, or more than a frame.
LEMMA AdjustedFacts ==
    ASSUME Delay!DelayConstants, len \in Nat, eff' \in Nat, eff' >= Spf \div 2,
           NEW l \in Delay!Adjusted("put")
    PROVE  l \in Nat /\ l <= len /\ (l = len \/ l > Spf)
  <1> USE DEF Delay!DelayConstants
  <1>1. CASE l = len BY <1>1
  <1>2. CASE l # len
    <2>1. len > Spf + eff' /\ l \in Delay!Shrunk(len, Spf \div 2)
      BY <1>2 DEF Delay!Adjusted
    <2>2. PICK h \in Nat : h = Spf \div 2 /\ eff' >= h OBVIOUS
    <2>3. PICK k \in 0 .. (IF h < len THEN h ELSE len) : l = len - k
      BY <2>1, <2>2 DEF Delay!Shrunk
    <2>4. PICK e \in Nat : e = eff' BY <2>2
    <2>5. k \in Nat /\ k <= h /\ k <= len BY <2>2, <2>3
    <2>6. len > Spf + e /\ e >= h BY <2>1, <2>2, <2>4
    <2>7. len \in Nat /\ Spf \in Nat OBVIOUS
    <2>8. len - k \in Nat /\ len - k <= len /\ len - k > Spf
      BY ONLY <2>5, <2>6, <2>7, h \in Nat, e \in Nat
    <2> QED BY <2>3, <2>8
  <1> QED BY <1>1, <1>2

\* Whatever order puts, gets and resets come in, however much WSOLA manages to
\* erase and whether or not it can save or make a frame, the circular buffer is
\* never asked to take more samples than it holds (delaybuf.c).
THEOREM DelayBufferFits ==
    ASSUME Delay!DelayConstants PROVE Delay!Spec => [](len \in Nat /\ Delay!DelayFits)
  <1>m. Delay!MaxCnt \in Nat /\ Delay!MaxCnt >= Spf /\ Spf \in Nat \ {0} /\ RecalcTime \in Nat \ {0}
    BY RoomForAFrame DEF Delay!DelayConstants
  <1>1. Delay!Init => DelayInv
    <2> SUFFICES ASSUME Delay!Init PROVE DelayInv OBVIOUS
    <2>1. PICK m \in Nat : m = Delay!MaxCnt /\ m >= Spf BY <1>m
    <2>2. m \div 2 \in Nat /\ m \div 2 >= Spf \div 2 BY <1>m, <2>1
    <2>3. eff = m \div 2 /\ len = 0 /\ level = 0 /\ max_level = 0 /\ recalc = RecalcTime
      BY <2>1 DEF Delay!Init
    <2> QED BY <1>m, <2>2, <2>3 DEF DelayInv, Delay!DelayFits
  <1>2. DelayInv /\ [Delay!Next]_Delay!vars => DelayInv'
    <2> SUFFICES ASSUME DelayInv, [Delay!Next]_Delay!vars PROVE DelayInv' OBVIOUS
    <2>m. Delay!MaxCnt' = Delay!MaxCnt
      BY DEF Delay!MaxCnt
    <2>f. len \in Nat /\ len <= Delay!MaxCnt /\ (len < Spf => len + Spf <= Delay!MaxCnt)
      BY DEF DelayInv, Delay!DelayFits
    <2>l. ASSUME IF Wsola THEN Delay!Update("put") \/ Delay!Update("get")
                 ELSE UNCHANGED Delay!learning
          PROVE  /\ eff' \in Nat /\ eff' >= Spf \div 2
                 /\ level' \in Nat /\ max_level' \in Nat /\ recalc' \in Nat \ {0}
      <3>1. CASE Wsola BY <2>l, <3>1, UpdateKeeps
      <3>2. CASE ~Wsola BY <2>l, <3>2 DEF Delay!learning, DelayInv
      <3> QED BY <3>1, <3>2
    <2>1. CASE Delay!Put
      <3>0. /\ eff' \in Nat /\ eff' >= Spf \div 2
            /\ level' \in Nat /\ max_level' \in Nat /\ recalc' \in Nat \ {0}
        BY <2>1, <2>l DEF Delay!Put
      <3>1. PICK l \in Delay!Adjusted("put") :
               len' = l \/ \E k \in Delay!Fitted(l) : len' = k + Spf
        BY <2>1 DEF Delay!Put
      <3>2. l \in Nat /\ l <= len /\ (l = len \/ l > Spf)
        BY <2>f, <3>0, AdjustedFacts
      <3>3. len' \in Nat /\ len' <= Delay!MaxCnt /\ (len' < Spf => len' + Spf <= Delay!MaxCnt)
        <4>1. CASE len' = l BY <1>m, <2>f, <3>2, <4>1
        <4>2. CASE \E k \in Delay!Fitted(l) : len' = k + Spf
          <5>1. PICK k \in Delay!Fitted(l) : len' = k + Spf BY <4>2
          <5>2. k \in Nat /\ k + Spf <= Delay!MaxCnt
            BY <1>m, <2>f, <3>2, FittedFacts
          <5> QED BY <1>m, <5>1, <5>2
        <4> QED BY <3>1, <4>1, <4>2
      <3> QED BY <2>m, <3>0, <3>3 DEF DelayInv, Delay!DelayFits
    <2>2. CASE Delay!Get
      <3>0. /\ eff' \in Nat /\ eff' >= Spf \div 2
            /\ level' \in Nat /\ max_level' \in Nat /\ recalc' \in Nat \ {0}
        BY <2>2, <2>l DEF Delay!Get
      <3>1. len' \in Nat /\ len' <= Delay!MaxCnt /\ (len' < Spf => len' + Spf <= Delay!MaxCnt)
        BY <1>m, <2>2, <2>f DEF Delay!Get
      <3> QED BY <2>m, <3>0, <3>1 DEF DelayInv, Delay!DelayFits
    <2>3. CASE Delay!Reset
      BY <1>m, <2>3, <2>m DEF Delay!Reset, Delay!DelayFits, DelayInv
    <2>4. CASE UNCHANGED Delay!vars
      BY <2>4, <2>m DEF Delay!vars, Delay!DelayFits, DelayInv
    <2> QED BY <2>1, <2>2, <2>3, <2>4 DEF Delay!Next
  <1>3. DelayInv => len \in Nat /\ Delay!DelayFits BY DEF DelayInv
  <1> QED BY <1>1, <1>2, <1>3, PTL DEF Delay!Spec

----------------------------------------------------------------------------
(***************************************************************************)
(* Induction over the naturals, stated about a set instead of a predicate, *)
(* and with it the loop that takes the elements of a list that are not in  *)
(* C: SubsUpTo of Port, and Unlinked of Negan.                             *)
(***************************************************************************)
LEMMA Least ==
    ASSUME NEW T, T \subseteq Nat, T # {}
    PROVE  \E x \in T : \A y \in T : x <= y
  <1>1. IsWellFoundedOn(OpToRel(<, Nat), Nat)
    BY NatLessThanWellFounded
  <1>2. PICK x \in T : \A y \in T : ~(<<y, x>> \in OpToRel(<, Nat))
    BY <1>1, WFMin, Zenon
  <1>3. \A y \in T : ~(y < x)
    BY <1>2 DEF OpToRel
  <1> QED BY <1>3

LEMMA Induct ==
    ASSUME NEW T, 0 \in T, \A n \in Nat : n \in T => n + 1 \in T
    PROVE  Nat \subseteq T
  <1> SUFFICES ASSUME Nat \ T # {} PROVE FALSE
    OBVIOUS
  <1>1. PICK x \in Nat \ T : \A y \in Nat \ T : x <= y
    BY Least
  <1>2. x # 0 /\ x - 1 \in Nat /\ (x - 1) + 1 = x
    BY <1>1
  <1>3. x - 1 \in T
    BY <1>1, <1>2
  <1> QED BY <1>1, <1>2, <1>3

\* One turn for every element up to the m-th.
Taking(f, l, m, C) ==
    [n \in 0..m |-> IF n = 0 THEN <<>>
                    ELSE IF l[n] \in C THEN f[n - 1]
                    ELSE Append(f[n - 1], l[n])]

LEMMA LoopRuns ==
    ASSUME NEW l, NEW N \in Nat, NEW C
    PROVE  \E f : f = Taking(f, l, N, C)
  <1> DEFINE T == {m \in Nat : \E f : f = Taking(f, l, m, C)}
  <1>1. 0 \in T
    <2>1. [n \in 0..0 |-> <<>>] = Taking([n \in 0..0 |-> <<>>], l, 0, C)
      BY DEF Taking
    <2> QED BY <2>1
  <1>2. ASSUME NEW m \in Nat, m \in T PROVE m + 1 \in T
    <2>1. PICK f : f = Taking(f, l, m, C)
      BY <1>2
    <2> DEFINE k == Taking(f, l, m + 1, C)
    <2>2. \A n \in 0..m : f[n] = k[n]
      <3>1. \A n \in 0..m : f[n] = Taking(f, l, m, C)[n]
        BY <2>1
      <3>2. \A n \in 0..m : k[n] = Taking(f, l, m, C)[n]
        BY DEF Taking
      <3> QED BY <3>1, <3>2
    <2>3. k = Taking(k, l, m + 1, C)
      <3>1. \A n \in 0..m+1 : n # 0 => n - 1 \in 0..m
        OBVIOUS
      <3> HIDE DEF k
      <3>2. \A n \in 0..m+1 : n # 0 => f[n - 1] = k[n - 1]
        BY <2>2, <3>1
      <3>3. Taking(f, l, m + 1, C) = Taking(k, l, m + 1, C)
        BY <3>2 DEF Taking
      <3> QED BY <3>3 DEF k
    <2>4. \E j : j = Taking(j, l, m + 1, C)
      <3> HIDE DEF k
      <3> QED BY <2>3
    <2> QED BY <2>4
  <1> HIDE DEF T
  <1>3. N \in T
    BY <1>1, <1>2, Induct
  <1> QED BY <1>3 DEF T

\* r is the elements of l up to the N-th that are not in C, in order: the j-th
\* of r is the at[j]-th of l.
Kept(r, l, N, C) ==
    \E at \in [1..Len(r) -> 1..N] :
        /\ \A j \in 1..Len(r) : r[j] = l[at[j]] /\ l[at[j]] \notin C
        /\ \A i, j \in 1..Len(r) : i < j => at[i] < at[j]
        /\ \A i \in 1..N : l[i] \notin C => \E j \in 1..Len(r) : at[j] = i

LEMMA TakenIsKept ==
    ASSUME NEW l, NEW N \in Nat, NEW C, NEW S, NEW f,
           f = Taking(f, l, N, C), \A i \in 1..N : l[i] \in S
    PROVE  f[N] \in Seq(S) /\ Kept(f[N], l, N, C)
  <1> DEFINE T == {m \in Nat : m <= N => f[m] \in Seq(S) /\ Kept(f[m], l, m, C)}
  <1>0. /\ f[0] = <<>>
        /\ \A m \in 0..N-1 : f[m + 1] = IF l[m + 1] \in C THEN f[m]
                                        ELSE Append(f[m], l[m + 1])
    <2>1. /\ 0 \in 0..N
          /\ \A m \in 0..N-1 : m + 1 \in 0..N /\ m + 1 # 0 /\ (m + 1) - 1 = m
      OBVIOUS
    <2> QED BY <2>1 DEF Taking
  <1>1. 0 \in T
    <2>1. f[0] \in Seq(S) /\ Len(f[0]) = 0
      BY <1>0
    <2>2. [j \in 1..0 |-> 0] \in [1..0 -> 1..0]
      OBVIOUS
    <2>3. Kept(f[0], l, 0, C)
      BY <2>1, <2>2 DEF Kept
    <2> QED BY <2>1, <2>3
  <1>2. ASSUME NEW m \in Nat, m \in T PROVE m + 1 \in T
    <2> SUFFICES ASSUME m + 1 <= N
                 PROVE  f[m + 1] \in Seq(S) /\ Kept(f[m + 1], l, m + 1, C)
      OBVIOUS
    <2>1. f[m] \in Seq(S) /\ Kept(f[m], l, m, C) /\ l[m + 1] \in S
      BY <1>2
    <2>2. PICK at \in [1..Len(f[m]) -> 1..m] :
              /\ \A j \in 1..Len(f[m]) : f[m][j] = l[at[j]] /\ l[at[j]] \notin C
              /\ \A i, j \in 1..Len(f[m]) : i < j => at[i] < at[j]
              /\ \A i \in 1..m : l[i] \notin C => \E j \in 1..Len(f[m]) : at[j] = i
      BY <2>1 DEF Kept
    <2>3. CASE l[m + 1] \in C
      <3>1. f[m + 1] = f[m]
        BY <1>0, <2>3
      <3>2. at \in [1..Len(f[m]) -> 1..m+1]
        OBVIOUS
      <3>3. \A i \in 1..m+1 : l[i] \notin C => i \in 1..m
        BY <2>3
      <3>4. Kept(f[m], l, m + 1, C)
        BY <2>2, <3>2, <3>3 DEF Kept
      <3> QED BY <2>1, <3>1, <3>4
    <2>4. CASE l[m + 1] \notin C
      <3> DEFINE n == Len(f[m])
                 r == Append(f[m], l[m + 1])
                 to == [j \in 1..n+1 |-> IF j = n + 1 THEN m + 1 ELSE at[j]]
      <3>1. /\ n \in Nat /\ r \in Seq(S) /\ Len(r) = n + 1 /\ r[n + 1] = l[m + 1]
            /\ \A j \in 1..n : r[j] = f[m][j]
        BY <2>1
      <3> HIDE DEF r
      <3>2. f[m + 1] = r
        <4>1. m \in 0..N-1
          OBVIOUS
        <4> QED BY <1>0, <2>4, <4>1 DEF r
      <3> HIDE DEF n
      <3>3. \A j \in 1..n : at[j] \in 1..m /\ r[j] = l[at[j]] /\ l[at[j]] \notin C
        BY <2>2, <3>1 DEF n
      <3>4. /\ to \in [1..n+1 -> 1..m+1] /\ to[n + 1] = m + 1
            /\ \A j \in 1..n : to[j] = at[j]
        <4>1. n + 1 \in 1..n+1 /\ m + 1 \in 1..m+1
          BY <3>1
        <4>2. \A j \in 1..n+1 : j # n + 1 => at[j] \in 1..m+1
          BY <3>1, <3>3
        <4>3. \A j \in 1..n : j \in 1..n+1 /\ j # n + 1
          BY <3>1
        <4> QED BY <4>1, <4>2, <4>3
      <3> HIDE DEF to
      <3>5. \A j \in 1..n+1 : j = n + 1 \/ j \in 1..n
        BY <3>1
      <3>6. \A j \in 1..n+1 : r[j] = l[to[j]] /\ l[to[j]] \notin C
        BY <2>4, <3>1, <3>3, <3>4, <3>5
      <3>7. \A i, j \in 1..n+1 : i < j => to[i] < to[j]
        <4> SUFFICES ASSUME NEW i \in 1..n+1, NEW j \in 1..n+1, i < j PROVE to[i] < to[j]
          OBVIOUS
        <4>1. i \in 1..n
          BY <3>1
        <4>2. CASE j = n + 1
          BY <3>3, <3>4, <4>1, <4>2
        <4>3. CASE j \in 1..n
          BY <2>2, <3>4, <4>1, <4>3 DEF n
        <4> QED BY <3>5, <4>2, <4>3
      <3>8. \A i \in 1..m+1 : l[i] \notin C => \E j \in 1..n+1 : to[j] = i
        <4> SUFFICES ASSUME NEW i \in 1..m+1, l[i] \notin C
                     PROVE  \E j \in 1..n+1 : to[j] = i
          OBVIOUS
        <4>1. CASE i = m + 1
          BY <3>1, <3>4, <4>1
        <4>2. CASE i \in 1..m
          <5>1. PICK j \in 1..n : at[j] = i
            BY <2>2, <4>2 DEF n
          <5> QED BY <3>1, <3>4, <5>1
        <4> QED BY <4>1, <4>2
      <3>9. Kept(r, l, m + 1, C)
        <4>1. 1..Len(r) = 1..n+1
          BY <3>1
        <4>2. to \in [1..Len(r) -> 1..m+1]
          BY <3>4, <4>1
        <4>3. \A j \in 1..Len(r) : r[j] = l[to[j]] /\ l[to[j]] \notin C
          BY <3>6, <4>1
        <4>4. \A i, j \in 1..Len(r) : i < j => to[i] < to[j]
          BY <3>7, <4>1
        <4>5. \A i \in 1..m+1 : l[i] \notin C => \E j \in 1..Len(r) : to[j] = i
          BY <3>8, <4>1
        <4> QED BY <4>2, <4>3, <4>4, <4>5, Zenon DEF Kept
      <3> QED BY <3>1, <3>2, <3>9
    <2> QED BY <2>3, <2>4
  <1> HIDE DEF T
  <1>3. N \in T
    BY <1>1, <1>2, Induct
  <1> QED BY <1>3 DEF T

----------------------------------------------------------------------------
(***************************************************************************)
(* The tree of ports.  While a dispatch runs, the ports it called and      *)
(* those it has still to call form one sequence, called \o todo, that grows *)
(* in the middle: behind the port that was called last its subordinate     *)
(* ports are put in.  PreOrder says of that sequence s, of which c ports   *)
(* were called, what DispatchInOrder says of the calls.  That nothing in it *)
(* is already below the port that is called next needs a tree: masters     *)
(* have a smaller rank, and the root of the dispatch has the smallest.     *)
(* The last part, that the ports to come are in the reverse order of their *)
(* masters, is for a port that is destroyed before it is called: the one   *)
(* behind it takes its place.                                              *)
(***************************************************************************)
PreOrder(s, N, c, M, sl) ==
    /\ \A i, j \in 1..N : s[i] = s[j] => i = j
    /\ \A i \in 2..N : \E j \in 1..c : j < i /\ s[j] = M[s[i]]
    /\ \A i, j \in 2..N : j < i /\ M[s[j]] = M[s[i]] => sl[s[j]] < sl[s[i]]
    /\ \A i \in 2..N : i <= c + 1 /\ M[s[i]] # s[i-1] =>
          \A k \in i+1..N : M[s[k]] # s[i-1]
    /\ \A i, j \in c+1..N, a, b \in 1..c :
          j < i /\ s[a] = M[s[i]] /\ s[b] = M[s[j]] => a <= b

Ranked(r, M) ==
    /\ r \in [Ports -> Nat]
    /\ \A p \in Ports : M[p] # None => r[M[p]] < r[p]

Rooted(s, N, r) == \A i \in 1..N : r[s[1]] <= r[s[i]]

\* t is s with u put in behind the port that is called next.
PutIn(t, s, u, N, c, m) ==
    /\ \A i \in 1..c+1 : t[i] = s[i]
    /\ \A i \in 1..m : t[c + 1 + i] = u[i]
    /\ \A i \in c+2..N : t[m + i] = s[i]

LEMMA NothingBelowYet ==
    ASSUME NEW M, NEW sl, NEW s, NEW N \in Nat, NEW c \in 0..N-1,
           PreOrder(s, N, c, M, sl), M[s[1]] # s[c + 1]
    PROVE  \A i \in 1..N : M[s[i]] # s[c + 1]
  <1> SUFFICES ASSUME NEW i \in 2..N, M[s[i]] = s[c + 1] PROVE FALSE
    OBVIOUS
  <1>1. PICK j \in 1..c : s[j] = M[s[i]]
    BY DEF PreOrder
  <1>2. j \in 1..N /\ j # c + 1 /\ c + 1 \in 1..N
    OBVIOUS
  <1> QED BY <1>1, <1>2 DEF PreOrder

LEMMA CallKeepsOrder ==
    ASSUME Bus!PortConstants, NEW M \in [Ports -> Ports \cup {None}], NEW sl,
           NEW s, NEW N \in Nat, NEW c \in 0..N-1, \A i \in 1..N : s[i] \in Ports,
           PreOrder(s, N, c, M, sl), \A i \in 1..N : M[s[i]] # s[c + 1],
           NEW u, NEW m \in Nat, \A i \in 1..m : u[i] \in Ports /\ M[u[i]] = s[c + 1],
           \A i \in 1..m : sl[u[i]] \in Nat,
           \A i, j \in 1..m : i < j => sl[u[i]] < sl[u[j]],
           NEW t, PutIn(t, s, u, N, c, m)
    PROVE  PreOrder(t, N + m, c + 1, M, sl)
  <1> DEFINE Old(i) == IF i <= c + 1 THEN i ELSE i - m
             New(i) == i > c + 1 /\ i <= c + 1 + m
  <1>1. ASSUME NEW i \in 1..N+m, New(i)
        PROVE  i - c - 1 \in 1..m /\ t[i] = u[i - c - 1] /\ M[t[i]] = s[c + 1]
    <2>1. i - c - 1 \in 1..m /\ i = c + 1 + (i - c - 1)
      BY <1>1
    <2>2. t[i] = u[i - c - 1]
      BY <2>1 DEF PutIn
    <2> QED BY <2>1, <2>2
  <1>2. ASSUME NEW i \in 1..N+m, ~New(i)
        PROVE  Old(i) \in 1..N /\ t[i] = s[Old(i)] /\ M[t[i]] # s[c + 1]
    <2>1. Old(i) \in 1..N
      BY <1>2
    <2>2. CASE i <= c + 1
      <3>1. t[i] = s[i]
        BY <2>2 DEF PutIn
      <3> QED BY <2>1, <2>2, <3>1
    <2>3. CASE i > c + 1
      <3>1. i - m \in c+2..N /\ i = m + (i - m)
        BY <1>2, <2>3
      <3>2. t[i] = s[i - m]
        BY <3>1 DEF PutIn
      <3> QED BY <2>1, <2>3, <3>2
    <2> QED BY <2>2, <2>3
  <1>3. \A i, j \in 1..N+m : ~New(i) /\ ~New(j) /\ i < j => Old(i) < Old(j)
    OBVIOUS
  <1>4. c + 1 \in 1..N+m /\ ~New(c + 1) /\ t[c + 1] = s[c + 1]
    BY DEF PutIn
  <1>5. \A i \in 2..N+m : i \in 1..N+m
    OBVIOUS
  <1>6. \A i \in 2..N+m : ~New(i) => Old(i) \in 2..N
    OBVIOUS
  <1> HIDE DEF Old, New
  <1>a. ASSUME NEW i \in 1..N+m, NEW j \in 1..N+m, t[i] = t[j], i < j PROVE FALSE
    <2>1. CASE New(i) /\ New(j)
      <3>1. sl[t[i]] < sl[t[j]] /\ sl[t[i]] \in Nat
        BY <1>1, <1>a, <2>1
      <3> QED BY <1>a, <3>1
    <2>2. CASE ~New(i) /\ ~New(j)
      <3>1. Old(i) \in 1..N /\ Old(j) \in 1..N /\ Old(i) < Old(j) /\ s[Old(i)] = s[Old(j)]
        BY <1>a, <1>2, <1>3, <2>2
      <3>2. Old(i) = Old(j)
        BY <3>1 DEF PreOrder
      <3> QED BY <3>1, <3>2
    <2>3. CASE New(i) /\ ~New(j)
      BY <1>1, <1>2, <1>a, <2>3
    <2>4. CASE ~New(i) /\ New(j)
      BY <1>1, <1>2, <1>a, <2>4
    <2> QED BY <2>1, <2>2, <2>3, <2>4
  <1>b. ASSUME NEW i \in 2..N+m PROVE \E j \in 1..c+1 : j < i /\ t[j] = M[t[i]]
    <2>1. CASE New(i)
      <3>1. c + 1 < i
        BY <2>1 DEF New
      <3> QED BY <1>1, <1>4, <1>5, <2>1, <3>1
    <2>2. CASE ~New(i)
      <3>1. Old(i) \in 2..N /\ t[i] = s[Old(i)] /\ Old(i) <= i
        BY <1>2, <1>5, <1>6, <2>2 DEF Old
      <3>2. PICK j \in 1..c : j < Old(i) /\ s[j] = M[t[i]]
        BY <3>1 DEF PreOrder
      <3>3. j \in 1..c+1 /\ t[j] = s[j] /\ j < i
        BY <3>1, <3>2 DEF PutIn
      <3> QED BY <3>2, <3>3
    <2> QED BY <2>1, <2>2
  <1>c. ASSUME NEW i \in 2..N+m, NEW j \in 2..N+m, j < i, M[t[j]] = M[t[i]]
        PROVE  sl[t[j]] < sl[t[i]]
    <2>1. CASE New(i) /\ New(j)
      BY <1>1, <1>5, <1>c, <2>1
    <2>2. CASE ~New(i) /\ ~New(j)
      <3>1. Old(i) \in 2..N /\ Old(j) \in 2..N /\ Old(j) < Old(i)
            /\ t[i] = s[Old(i)] /\ t[j] = s[Old(j)]
        BY <1>2, <1>3, <1>5, <1>6, <1>c, <2>2
      <3> QED BY <1>c, <3>1 DEF PreOrder
    <2>3. CASE New(i) /\ ~New(j)
      BY <1>1, <1>2, <1>5, <1>c, <2>3
    <2>4. CASE ~New(i) /\ New(j)
      BY <1>1, <1>2, <1>5, <1>c, <2>4
    <2> QED BY <2>1, <2>2, <2>3, <2>4
  <1>d. ASSUME NEW i \in 2..N+m, i <= c + 2, M[t[i]] # t[i-1], NEW k \in i+1..N+m
        PROVE  M[t[k]] # t[i-1]
    <2>1. k \in 1..N+m /\ i - 1 \in 1..c+1 /\ t[i-1] = s[i-1]
      BY <1>d DEF PutIn
    <2>2. CASE i <= c + 1
      <3>1. ~New(i) /\ Old(i) = i /\ i \in 2..N /\ t[i] = s[i]
        BY <2>2 DEF New, Old, PutIn
      <3>2. i - 1 \in 1..N /\ c + 1 \in 1..N /\ i - 1 # c + 1
        BY <2>2
      <3>3. s[i-1] # s[c + 1]
        BY <3>2 DEF PreOrder
      <3>4. CASE New(k)
        BY <1>1, <2>1, <3>3, <3>4
      <3>5. CASE ~New(k)
        <4>1. Old(k) \in 1..N /\ t[k] = s[Old(k)] /\ Old(i) < Old(k)
          BY <1>2, <1>3, <1>5, <2>1, <3>1, <3>5
        <4>2. Old(k) \in i+1..N
          BY <3>1, <4>1
        <4>3. M[s[i]] # s[i-1]
          BY <1>d, <2>1, <3>1
        <4> QED BY <2>1, <2>2, <3>1, <4>1, <4>2, <4>3 DEF PreOrder
      <3> QED BY <3>4, <3>5
    <2>3. CASE i = c + 2
      <3>1. t[i-1] = s[c + 1]
        BY <2>1, <2>3
      <3>2. ~New(i)
        BY <1>1, <1>5, <1>d, <3>1
      <3>3. m = 0
        BY <2>3, <3>2 DEF New
      <3>4. ~New(k)
        BY <3>3 DEF New
      <3> QED BY <1>2, <2>1, <3>1, <3>4
    <2> QED BY <1>d, <2>2, <2>3
  <1>e. \A i, j \in 1..N+m : t[i] = t[j] => i = j
    <2>1. \A i, j \in 1..N+m : i < j => t[i] # t[j]
      BY <1>a
    <2> QED BY <2>1
  <1>f. (c + 1) + 1 = c + 2
    OBVIOUS
  <1>g. ASSUME NEW i \in c+2..N+m, NEW j \in c+2..N+m, NEW a \in 1..c+1, NEW b \in 1..c+1,
               j < i, t[a] = M[t[i]], t[b] = M[t[j]]
        PROVE  a <= b
    <2>1. /\ i \in 1..N+m /\ j \in 1..N+m /\ a \in 1..N /\ b \in 1..N /\ c + 1 \in 1..N
          /\ t[a] = s[a] /\ t[b] = s[b]
      BY DEF PutIn
    <2>2. CASE New(j)
      <3>1. s[b] = s[c + 1]
        BY <1>1, <1>g, <2>1, <2>2
      <3>2. b = c + 1
        BY <2>1, <3>1 DEF PreOrder
      <3> QED BY <3>2
    <2>3. CASE ~New(j)
      <3>1. ~New(i)
        BY <1>g, <2>3 DEF New
      <3>2. /\ Old(i) \in c+1..N /\ Old(j) \in c+1..N /\ Old(j) < Old(i)
            /\ t[i] = s[Old(i)] /\ t[j] = s[Old(j)]
        <4>1. Old(i) \in 1..N /\ Old(j) \in 1..N /\ Old(j) < Old(i) /\ t[i] = s[Old(i)] /\ t[j] = s[Old(j)]
          BY <1>2, <1>3, <1>g, <2>1, <2>3, <3>1
        <4>2. Old(i) >= c + 1 /\ Old(j) >= c + 1
          BY <2>3, <3>1 DEF Old, New
        <4> QED BY <4>1, <4>2
      <3>3. M[t[i]] # s[c + 1] /\ M[t[j]] # s[c + 1]
        BY <1>2, <2>1, <2>3, <3>1
      <3>4. a # c + 1 /\ b # c + 1
        BY <1>g, <2>1, <3>3
      <3>5. a \in 1..c /\ b \in 1..c
        BY <3>4
      <3>6. s[a] = M[s[Old(i)]] /\ s[b] = M[s[Old(j)]]
        BY <1>g, <2>1, <3>2
      <3>7. \A i1, j1 \in c+1..N, a1, b1 \in 1..c :
                j1 < i1 /\ s[a1] = M[s[i1]] /\ s[b1] = M[s[j1]] => a1 <= b1
        BY DEF PreOrder
      <3> QED BY <3>2, <3>5, <3>6, <3>7
    <2> QED BY <2>2, <2>3
  <1> QED BY <1>b, <1>c, <1>d, <1>e, <1>f, <1>g DEF PreOrder

\* A port that was to be called is taken out.
LEMMA RemovalKeepsOrder ==
    ASSUME NEW M, NEW sl, NEW s, NEW N \in Nat, NEW c \in 1..N-1, NEW k \in c+1..N,
           PreOrder(s, N, c, M, sl),
           NEW t, \A i \in 1..N-1 : t[i] = s[IF i < k THEN i ELSE i + 1]
    PROVE  PreOrder(t, N - 1, c, M, sl)
  <1> DEFINE At(i) == IF i < k THEN i ELSE i + 1
  <1>1. ASSUME NEW i \in 1..N-1
        PROVE  /\ At(i) \in 1..N /\ t[i] = s[At(i)] /\ i <= At(i)
               /\ (i <= c => At(i) = i) /\ (i \in 2..N-1 => At(i) \in 2..N)
               /\ (i \in c+1..N-1 => At(i) \in c+1..N)
    OBVIOUS
  <1>2. \A i, j \in 1..N-1 : i < j => At(i) < At(j)
    OBVIOUS
  <1> HIDE DEF At
  <1>3. \A i \in 2..N-1 : i \in 1..N-1
    OBVIOUS
  <1>4. \A i \in c+1..N-1 : i \in 1..N-1
    OBVIOUS
  <1>5. \A i \in 1..c : i \in 1..N /\ (i \in 1..N-1 => t[i] = s[i])
    BY <1>1
  <1>a. ASSUME NEW i \in 1..N-1, NEW j \in 1..N-1, t[i] = t[j] PROVE i = j
    <2>1. At(i) = At(j)
      BY <1>1, <1>a DEF PreOrder
    <2>2. ~(i < j) /\ ~(j < i)
      BY <1>1, <1>2, <2>1
    <2> QED BY <2>2
  <1>b. ASSUME NEW i \in 2..N-1 PROVE \E j \in 1..c : j < i /\ t[j] = M[t[i]]
    <2>1. /\ At(i) \in 2..N /\ t[i] = s[At(i)] /\ i \in 1..N-1
          /\ i \in c+1..N-1 \/ At(i) = i
      BY <1>1, <1>3
    <2>2. PICK j \in 1..c : j < At(i) /\ s[j] = M[t[i]]
      BY <2>1 DEF PreOrder
    <2>3. j < i /\ j \in 1..N-1
      BY <2>1, <2>2
    <2> QED BY <1>5, <2>2, <2>3
  <1>c. ASSUME NEW i \in 2..N-1, NEW j \in 2..N-1, j < i, M[t[j]] = M[t[i]] PROVE sl[t[j]] < sl[t[i]]
    <2>1. /\ At(i) \in 2..N /\ At(j) \in 2..N /\ At(j) < At(i)
          /\ t[i] = s[At(i)] /\ t[j] = s[At(j)]
      BY <1>1, <1>2, <1>3, <1>c
    <2> QED BY <1>c, <2>1 DEF PreOrder
  <1>d. ASSUME NEW i \in 2..N-1, i <= c + 1, M[t[i]] # t[i-1], NEW n \in i+1..N-1, M[t[n]] = t[i-1]
        PROVE  FALSE
    <2>1. /\ i \in 1..N-1 /\ n \in 1..N-1 /\ i - 1 \in 1..c /\ i - 1 \in 1..N-1 /\ i < n
          /\ t[i-1] = s[i-1]
      BY <1>5, <1>d
    <2>2. At(n) \in 1..N /\ t[n] = s[At(n)] /\ At(i) < At(n) /\ t[i] = s[At(i)]
      BY <1>1, <1>2, <2>1
    <2>3. CASE i <= c
      <3>1. At(i) = i /\ i \in 2..N
        BY <1>1, <2>1, <2>3
      <3>2. At(n) \in i+1..N
        BY <2>2, <3>1
      <3> QED BY <1>d, <2>1, <2>2, <3>1, <3>2 DEF PreOrder
    <2>4. CASE i = c + 1
      <3>1. i \in c+1..N-1 /\ n \in c+1..N-1 /\ i - 1 = c
        BY <2>1, <2>4
      <3>2. At(i) \in 2..N /\ At(i) \in c+1..N /\ At(n) \in c+1..N
        BY <1>1, <2>1, <3>1
      <3>3. PICK b \in 1..c : s[b] = M[t[i]]
        BY <2>2, <3>2 DEF PreOrder
      <3>4. c \in 1..c /\ s[c] = M[s[At(n)]] /\ s[b] = M[s[At(i)]]
        BY <1>d, <2>1, <2>2, <3>1, <3>3
      <3>5. c <= b
        BY <2>2, <3>2, <3>4 DEF PreOrder
      <3>6. b = c
        BY <3>5
      <3> QED BY <1>d, <2>1, <3>1, <3>3, <3>6
    <2> QED BY <1>d, <2>3, <2>4
  <1>e. ASSUME NEW i \in c+1..N-1, NEW j \in c+1..N-1, NEW a \in 1..c, NEW b \in 1..c,
               j < i, t[a] = M[t[i]], t[b] = M[t[j]]
        PROVE  a <= b
    <2>1. /\ At(i) \in c+1..N /\ At(j) \in c+1..N /\ At(j) < At(i)
          /\ t[i] = s[At(i)] /\ t[j] = s[At(j)]
      BY <1>1, <1>2, <1>4, <1>e
    <2>2. t[a] = s[a] /\ t[b] = s[b]
      BY <1>5
    <2> QED BY <1>e, <2>1, <2>2 DEF PreOrder
  <1> QED BY <1>a, <1>b, <1>c, <1>d, <1>e DEF PreOrder

\* Removing position k.
LEMMA RemoveAtFacts ==
    ASSUME NEW S, NEW s \in Seq(S), NEW k \in 1 .. Len(s)
    PROVE  /\ RemoveAt(s, k) \in Seq(S)
           /\ Len(RemoveAt(s, k)) = Len(s) - 1
           /\ \A i \in 1 .. Len(s) - 1 :
                 RemoveAt(s, k)[i] = IF i < k THEN s[i] ELSE s[i + 1]
  <1> DEFINE a == SubSeq(s, 1, k - 1)
             b == SubSeq(s, k + 1, Len(s))
  <1>1. Len(s) \in Nat /\ k \in Nat BY LenProperties
  <1>2. a \in Seq(S) /\ Len(a) = k - 1 /\ \A i \in 1 .. k - 1 : a[i] = s[i]
    BY <1>1
  <1>3. /\ b \in Seq(S) /\ Len(b) = Len(s) - k
        /\ \A i \in 1 .. Len(s) - k : b[i] = s[k + i]
    BY <1>1
  <1>4. RemoveAt(s, k) = a \o b BY DEF RemoveAt
  <1> HIDE DEF a, b
  <1>5. /\ a \o b \in Seq(S) /\ Len(a \o b) = Len(a) + Len(b)
        /\ \A i \in 1 .. Len(a) + Len(b) :
              (a \o b)[i] = IF i <= Len(a) THEN a[i] ELSE b[i - Len(a)]
    BY <1>2, <1>3, ConcatProperties
  <1>6. ASSUME NEW i \in 1 .. Len(s) - 1
        PROVE  (a \o b)[i] = IF i < k THEN s[i] ELSE s[i + 1]
    <2>1. CASE i < k BY <1>1, <1>2, <1>3, <1>5, <2>1
    <2>2. CASE i >= k
      <3>1. (a \o b)[i] = b[i - (k - 1)] BY <1>1, <1>2, <1>3, <1>5, <2>2
      <3>2. i - (k - 1) \in 1 .. Len(s) - k /\ k + (i - (k - 1)) = i + 1
        BY <1>1, <2>2
      <3>3. b[i - (k - 1)] = s[k + (i - (k - 1))] BY <1>3, <3>2
      <3> QED BY <1>1, <2>2, <3>1, <3>2, <3>3
    <2>3. i < k \/ i >= k BY <1>1
    <2> QED BY <2>1, <2>2, <2>3
  <1> QED BY <1>1, <1>2, <1>3, <1>4, <1>5, <1>6

Order == called \o todo
Total == Len(called) + Len(todo)

TreeInv ==
    /\ subs \in [Ports -> [1..SlotMax -> Ports \cup {None}]]
    /\ master \in [Ports -> Ports \cup {None}]
    /\ slot \in [Ports -> 1..SlotMax]
    /\ Bus!SlotsAgree

OrderInv ==
    /\ called \in Seq(Ports) /\ todo \in Seq(Ports)
    /\ PreOrder(Order, Total, Len(called), master, slot)
    /\ failed => todo = <<>>
    /\ ~failed => \A p \in Ports :
          Bus!Listed(p) /\ (\E j \in 1..Len(called) : called[j] = master[p]) =>
              \E k \in 1..Total : Order[k] = p

PortInv ==
    /\ TreeInv /\ OrderInv /\ own \subseteq Ports /\ Bus!OwnSlots
    /\ \E r : Ranked(r, master) /\ Rooted(Order, Total, r)

LEMMA SubsAreKept ==
    ASSUME Bus!PortConstants, TreeInv, NEW p \in Ports
    PROVE  /\ Bus!Subs(p) \in Seq(Ports \cup {None})
           /\ Kept(Bus!Subs(p), subs[p], SlotMax, {None})
  <1>1. SlotMax \in Nat /\ \A i \in 1..SlotMax : subs[p][i] \in Ports \cup {None}
    BY DEF Bus!PortConstants, TreeInv
  <1> DEFINE Loop(f) == [n \in 0..SlotMax |->
                            IF n = 0 THEN <<>>
                            ELSE IF subs[p][n] = None THEN f[n - 1]
                            ELSE Append(f[n - 1], subs[p][n])]
  <1>2. ASSUME NEW f PROVE Loop(f) = Taking(f, subs[p], SlotMax, {None})
    <2>1. \A n \in 0..SlotMax : (subs[p][n] = None) <=> (subs[p][n] \in {None})
      OBVIOUS
    <2> QED BY <2>1 DEF Taking
  <1>3. Bus!SubsUpTo(p) = CHOOSE f : f = Loop(f)
    BY DEF Bus!SubsUpTo
  <1> HIDE DEF Loop
  <1>4. PICK f : f = Loop(f)
    BY <1>1, <1>2, LoopRuns
  <1>5. Bus!SubsUpTo(p) = Loop(Bus!SubsUpTo(p))
    BY <1>3, <1>4
  <1> DEFINE u == Bus!SubsUpTo(p)
  <1> HIDE DEF u
  <1>6. u = Taking(u, subs[p], SlotMax, {None})
    BY <1>2, <1>5 DEF u
  <1>7. u[SlotMax] \in Seq(Ports \cup {None}) /\ Kept(u[SlotMax], subs[p], SlotMax, {None})
    BY <1>1, <1>6, TakenIsKept
  <1> QED BY <1>7 DEF u, Bus!Subs

\* The ports below p, each in the slot it remembers, in the order of the slots.
LEMMA SubsAre ==
    ASSUME Bus!PortConstants, TreeInv, NEW p \in Ports, NEW u, u = Bus!Subs(p)
    PROVE  /\ u \in Seq(Ports)
           /\ \A i \in 1..Len(u) : u[i] \in Ports /\ master[u[i]] = p /\ slot[u[i]] \in Nat
           /\ \A i, j \in 1..Len(u) : i < j => slot[u[i]] < slot[u[j]]
           /\ \A q \in Ports : Bus!Listed(q) /\ master[q] = p => \E i \in 1..Len(u) : u[i] = q
  <1>1. u \in Seq(Ports \cup {None}) /\ Len(u) \in Nat
    BY SubsAreKept
  <1>2. PICK at \in [1..Len(u) -> 1..SlotMax] :
            /\ \A j \in 1..Len(u) : u[j] = subs[p][at[j]] /\ subs[p][at[j]] \notin {None}
            /\ \A i, j \in 1..Len(u) : i < j => at[i] < at[j]
            /\ \A i \in 1..SlotMax : subs[p][i] \notin {None} => \E j \in 1..Len(u) : at[j] = i
    BY SubsAreKept DEF Kept
  <1>3. ASSUME NEW j \in 1..Len(u)
        PROVE  u[j] \in Ports /\ master[u[j]] = p /\ slot[u[j]] = at[j] /\ at[j] \in Nat
    <2>1. at[j] \in 1..SlotMax /\ u[j] = subs[p][at[j]] /\ u[j] # None
      BY <1>2
    <2>2. u[j] \in Ports
      <3>0. subs \in [Ports -> [1..SlotMax -> Ports \cup {None}]]
        BY DEF TreeInv
      <3>1. \A i \in 1..SlotMax : subs[p][i] \in Ports \cup {None}
        BY <3>0
      <3>2. subs[p][at[j]] \in Ports \cup {None}
        BY <2>1, <3>1
      <3> QED BY <2>1, <3>2
    <2> QED BY <2>1, <2>2 DEF TreeInv, Bus!SlotsAgree
  <1>4. u \in Seq(Ports)
    <2>1. u = [j \in 1..Len(u) |-> u[j]]
      BY <1>1
    <2> QED BY <1>1, <1>3, <2>1
  <1>5. ASSUME NEW q \in Ports, Bus!Listed(q), master[q] = p
        PROVE  \E i \in 1..Len(u) : u[i] = q
    <2>1. PICK i \in 1..SlotMax : subs[p][i] = q
      BY <1>5 DEF Bus!Listed
    <2>2. subs[p][i] \notin {None}
      BY <2>1 DEF Bus!PortConstants
    <2>3. PICK j \in 1..Len(u) : at[j] = i
      BY <1>2, <2>2
    <2> QED BY <1>2, <2>1, <2>3
  <1>6. \A i, j \in 1..Len(u) : i < j => slot[u[i]] < slot[u[j]]
    BY <1>2, <1>3
  <1>7. \A i \in 1..Len(u) : u[i] \in Ports /\ master[u[i]] = p /\ slot[u[i]] \in Nat
    BY <1>3
  <1> QED BY <1>4, <1>5, <1>6, <1>7

LEMMA OrderIs ==
    ASSUME called \in Seq(Ports), todo \in Seq(Ports)
    PROVE  /\ Len(called) \in Nat /\ Len(todo) \in Nat /\ Total \in Nat
           /\ Order \in Seq(Ports) /\ Len(Order) = Total
           /\ \A i \in 1..Total : Order[i] \in Ports
           /\ \A i \in 1..Len(called) : Order[i] = called[i]
           /\ \A i \in 1..Len(todo) : Order[Len(called) + i] = todo[i]
  <1>1. Len(called) \in Nat /\ Len(todo) \in Nat /\ Total \in Nat
        /\ Order \in Seq(Ports) /\ Len(Order) = Total
    BY DEF Order, Total
  <1>2. \A i \in 1..Total : Order[i] \in Ports
    BY <1>1
  <1>3. /\ \A i \in 1..Len(called) : Order[i] = called[i]
        /\ \A i \in 1..Len(todo) : Order[Len(called) + i] = todo[i]
    BY DEF Order
  <1> QED BY <1>1, <1>2, <1>3

LEMMA InOrder ==
    ASSUME Bus!PortConstants, PortInv
    PROVE  Bus!SlotsAgree /\ Bus!DispatchInOrder
  <1>1. /\ Len(called) \in Nat /\ Len(todo) \in Nat /\ Total \in Nat
        /\ Order \in Seq(Ports) /\ Len(Order) = Total /\ Len(called) <= Total
        /\ \A i \in 1..Len(called) : Order[i] = called[i]
    BY OrderIs DEF PortInv, OrderInv, Total
  <1>2. PreOrder(Order, Total, Len(called), master, slot)
    BY DEF PortInv, OrderInv
  <1>3. Bus!IsInjective(called \o todo)
    <2>1. DOMAIN Order = 1..Total
      BY <1>1
    <2> QED BY <1>2, <2>1 DEF PreOrder, Order, Bus!IsInjective
  <1>4. ASSUME NEW i \in 2..Len(called)
        PROVE  /\ \E j \in 1..i-1 : called[j] = master[called[i]]
               /\ \A j \in 2..i-1 : master[called[j]] = master[called[i]] =>
                      slot[called[j]] < slot[called[i]]
               /\ master[called[i]] # called[i-1] =>
                      ~\E k \in i+1..Len(called) : master[called[k]] = called[i-1]
    <2>1. /\ i \in 2..Total /\ Order[i] = called[i]
          /\ i - 1 \in 1..Len(called) /\ Order[i-1] = called[i-1]
      BY <1>1
    <2>2. PICK j \in 1..Len(called) : j < i /\ Order[j] = master[called[i]]
      BY <1>2, <2>1 DEF PreOrder
    <2>3. j \in 1..i-1 /\ called[j] = master[called[i]]
      BY <1>1, <2>2
    <2>4. ASSUME NEW k \in 2..i-1, master[called[k]] = master[called[i]]
          PROVE  slot[called[k]] < slot[called[i]]
      <3>1. k \in 2..Total /\ k < i /\ Order[k] = called[k]
        BY <1>1
      <3> QED BY <1>2, <2>1, <2>4, <3>1 DEF PreOrder
    <2>5. ASSUME master[called[i]] # called[i-1], NEW k \in i+1..Len(called)
          PROVE  master[called[k]] # called[i-1]
      <3>1. k \in i+1..Total /\ Order[k] = called[k] /\ i <= Len(called) + 1
        BY <1>1
      <3> QED BY <1>2, <2>1, <2>5, <3>1 DEF PreOrder
    <2> QED BY <2>3, <2>4, <2>5
  <1>5. ASSUME todo = <<>>, ~failed, NEW p \in Ports, Bus!Listed(p),
               Bus!Contains(called, master[p])
        PROVE  Bus!Contains(called, p)
    <2>1. PICK k \in 1..Total : Order[k] = p
      BY <1>5 DEF PortInv, OrderInv, Bus!Contains
    <2>2. k \in 1..Len(called)
      BY <1>5, <1>1 DEF Total
    <2> QED BY <1>1, <2>1, <2>2 DEF Bus!Contains
  <1>6. Bus!SlotsAgree
    BY DEF PortInv, TreeInv
  <1> QED BY <1>3, <1>4, <1>5, <1>6 DEF Bus!DispatchInOrder

\* Nothing is called and nothing is to be called.
LEMMA NoOrder ==
    ASSUME called = <<>>, todo = <<>>, NEW r
    PROVE  OrderInv /\ Rooted(Order, Total, r)
  <1>1. Total = 0 /\ Len(called) = 0
    BY DEF Total
  <1>2. called \in Seq(Ports) /\ todo \in Seq(Ports)
    OBVIOUS
  <1> QED BY <1>1, <1>2 DEF OrderInv, PreOrder, Rooted

LEMMA NoOrderPrime ==
    ASSUME called' = <<>>, todo' = <<>>, NEW r
    PROVE  OrderInv' /\ Rooted(Order', Total', r)
  <1>1. Total' = 0 /\ Len(called') = 0
    BY DEF Total
  <1>2. called' \in Seq(Ports) /\ todo' \in Seq(Ports)
    OBVIOUS
  <1> QED BY <1>1, <1>2 DEF OrderInv, PreOrder, Rooted

LEMMA InitPortInv == ASSUME Bus!PortConstants, Bus!Init PROVE PortInv
  <1>1. TreeInv /\ own \subseteq Ports /\ Bus!OwnSlots
    BY DEF TreeInv, Bus!Init, Bus!PortConstants, Bus!SlotsAgree, Bus!OwnSlots
  <1>2. Ranked([p \in Ports |-> 0], master)
    BY DEF Ranked, Bus!Init
  <1>3. called = <<>> /\ todo = <<>>
    BY DEF Bus!Init
  <1> QED BY <1>1, <1>2, <1>3, NoOrder DEF PortInv

LEMMA FirstIsFree ==
    ASSUME Bus!PortConstants, NEW m, Bus!Free(m) # {}
    PROVE  Bus!First(Bus!Free(m)) \in Bus!Free(m) /\ Bus!Free(m) \subseteq 1..SlotMax
  <1>1. Bus!Free(m) \subseteq 1..SlotMax /\ SlotMax \in Nat
    BY DEF Bus!Free, Bus!PortConstants
  <1> DEFINE S == Bus!Free(m)
  <1> HIDE DEF S
  <1>2. S \subseteq Nat /\ S # {}
    BY <1>1 DEF S
  <1>3. \E i \in S : \A j \in S : i <= j
    BY <1>2, Least
  <1>4. (CHOOSE i \in S : \A j \in S : i <= j) \in S
    BY <1>3
  <1> QED BY <1>1, <1>4 DEF S, Bus!First

\* The ports that are not above the new master are ranked below it.
LEMMA ConnectRanks ==
    ASSUME Bus!PortConstants, TreeInv, NEW m \in Ports, NEW p \in Ports,
           ~Bus!Below(m, p), NEW r, Ranked(r, master),
           NEW M, M = [master EXCEPT ![p] = m]
    PROVE  \E q : Ranked(q, M)
  <1>1. PICK D \in SUBSET Ports :
            p \in D /\ (\A x \in Ports : master[x] \in D => x \in D) /\ m \notin D
    BY DEF Bus!Below
  <1> DEFINE q == [x \in Ports |-> IF x \in D THEN r[x] + r[m] + 1 ELSE r[x]]
  <1>2. \A x \in Ports : r[x] \in Nat
    BY DEF Ranked
  <1>3. \A x \in Ports : M[x] = IF x = p THEN m ELSE master[x]
    BY DEF TreeInv
  <1>4. q \in [Ports -> Nat]
    BY <1>2
  <1>5. \A x \in Ports : q[x] = IF x \in D THEN r[x] + r[m] + 1 ELSE r[x]
    OBVIOUS
  <1> HIDE DEF q
  <1>6. ASSUME NEW x \in Ports, M[x] # None PROVE q[M[x]] < q[x]
    <2>1. CASE x = p
      <3>1. q[x] = r[x] + r[m] + 1 /\ q[M[x]] = r[m]
        BY <1>1, <1>3, <1>5, <2>1
      <3> QED BY <1>2, <3>1
    <2>2. CASE x # p
      <3>1. M[x] = master[x] /\ master[x] \in Ports
        BY <1>3, <1>6, <2>2 DEF TreeInv
      <3>2. r[master[x]] < r[x] /\ r[master[x]] \in Nat /\ r[x] \in Nat /\ r[m] \in Nat
        BY <1>2, <1>6, <3>1 DEF Ranked
      <3>3. CASE master[x] \in D
        <4>1. x \in D
          BY <1>1, <3>3
        <4> QED BY <1>5, <3>1, <3>2, <3>3, <4>1
      <3>4. CASE master[x] \notin D
        <4>1. q[M[x]] = r[master[x]]
          BY <1>5, <3>1, <3>4
        <4>2. q[x] = r[x] \/ q[x] = r[x] + r[m] + 1
          BY <1>5
        <4> QED BY <3>2, <4>1, <4>2
      <3> QED BY <3>3, <3>4
    <2> QED BY <2>1, <2>2
  <1> QED BY <1>4, <1>6 DEF Ranked

LEMMA ConnectKeeps ==
    ASSUME Bus!PortConstants, PortInv, NEW m \in Ports, NEW p \in Ports, Bus!Connect(m, p)
    PROVE  PortInv'
  <1>0. /\ master' = [master EXCEPT ![p] = m] /\ ~Bus!Below(m, p)
        /\ called' = <<>> /\ todo' = <<>> /\ TreeInv
    BY DEF Bus!Connect, Bus!Idle, PortInv
  <1>1. \E q : Ranked(q, master')
    <2>1. PICK r : Ranked(r, master)
      BY DEF PortInv
    <2> QED BY <1>0, <2>1, ConnectRanks
  <1>2. master' \in [Ports -> Ports \cup {None}] /\ \A x \in Ports : x # p => master'[x] = master[x]
    BY <1>0 DEF TreeInv
  <1>3. \A x \in Ports, i \in 1..SlotMax : subs[x][i] # p
    BY DEF Bus!Connect
  <1>a. /\ own \subseteq Ports /\ m # None
        /\ \A x \in own : master[x] # None /\ subs[master[x]][slot[x]] = x
    BY DEF PortInv, Bus!OwnSlots, Bus!PortConstants
  <1>b. \A x \in own : x # p
    <2>1. ASSUME p \in own PROVE FALSE
      <3>1. master[p] \in Ports /\ slot[p] \in 1..SlotMax /\ subs[master[p]][slot[p]] = p
        BY <1>0, <1>a, <2>1 DEF TreeInv
      <3> QED BY <1>3, <3>1
    <2> QED BY <2>1
  <1>4. TreeInv' /\ own' \subseteq Ports /\ Bus!OwnSlots'
    <2>1. CASE Bus!Free(m) = {}
      <3>1. subs' = subs /\ slot' = slot /\ own' = own \ {p}
        BY <2>1 DEF Bus!Connect
      <3>2. Bus!SlotsAgree'
        <4> SUFFICES ASSUME NEW x \in Ports, NEW q \in Ports, NEW i \in 1..SlotMax, subs[x][i] = q
                     PROVE  master'[q] = x /\ slot[q] = i
          BY <3>1 DEF Bus!SlotsAgree
        <4>1. q # p
          BY <1>3
        <4> QED BY <1>0, <1>2, <4>1 DEF TreeInv, Bus!SlotsAgree
      <3>3. own' \subseteq Ports /\ Bus!OwnSlots'
        BY <1>2, <1>a, <1>b, <3>1 DEF Bus!OwnSlots
      <3> QED BY <1>0, <1>2, <3>1, <3>2, <3>3 DEF TreeInv
    <2>2. CASE Bus!Free(m) # {}
      <3> DEFINE n == Bus!First(Bus!Free(m))
      <3>1. n \in 1..SlotMax /\ subs[m][n] = None
        BY <2>2, FirstIsFree DEF Bus!Free
      <3>2. subs' = [subs EXCEPT ![m][n] = p] /\ slot' = [slot EXCEPT ![p] = n] /\ own' = own \cup {p}
        BY <2>2 DEF Bus!Connect
      <3> HIDE DEF n
      <3>3. SlotMax \in Nat /\ n \in Nat
        BY <3>1 DEF Bus!PortConstants
      <3>4. /\ subs' \in [Ports -> [1..SlotMax -> Ports \cup {None}]]
            /\ slot' \in [Ports -> 1..SlotMax]
            /\ slot'[p] = n /\ \A x \in Ports : x # p => slot'[x] = slot[x]
        BY <1>0, <3>1, <3>2, <3>3 DEF TreeInv
      <3>5. \A x \in Ports, i \in 1..SlotMax :
                subs'[x][i] = IF x = m /\ i = n THEN p ELSE subs[x][i]
        BY <1>0, <3>1, <3>2 DEF TreeInv
      <3>6. Bus!SlotsAgree'
        <4> SUFFICES ASSUME NEW x \in Ports, NEW q \in Ports, NEW i \in 1..SlotMax, subs'[x][i] = q
                     PROVE  master'[q] = x /\ slot'[q] = i
          BY DEF Bus!SlotsAgree
        <4>1. CASE x = m /\ i = n
          <5>1. q = p
            BY <3>5, <4>1
          <5>2. master'[p] = m
            BY <1>0 DEF TreeInv
          <5> QED BY <3>4, <4>1, <5>1, <5>2
        <4>2. CASE ~(x = m /\ i = n)
          <5>1. subs[x][i] = q /\ q # p
            BY <1>3, <3>5, <4>2
          <5>2. Bus!SlotsAgree
            BY <1>0 DEF TreeInv
          <5>3. master[q] = x /\ slot[q] = i
            BY <5>1, <5>2 DEF Bus!SlotsAgree
          <5> QED BY <1>2, <3>4, <5>1, <5>3
        <4> QED BY <4>1, <4>2
      <3>7. ASSUME NEW x \in own' PROVE master'[x] # None /\ subs'[master'[x]][slot'[x]] = x
        <4>1. CASE x = p
          <5>1. master'[p] = m
            BY <1>0 DEF TreeInv
          <5> QED BY <1>a, <3>1, <3>4, <3>5, <4>1, <5>1
        <4>2. CASE x # p
          <5>1. x \in own /\ x \in Ports
            BY <1>a, <3>2, <3>7, <4>2
          <5>2. master'[x] = master[x] /\ slot'[x] = slot[x] /\ subs[master[x]][slot[x]] = x
                /\ master[x] \in Ports /\ slot[x] \in 1..SlotMax /\ master[x] # None
            BY <1>0, <1>2, <1>a, <3>4, <4>2, <5>1 DEF TreeInv
          <5>3. ~(master[x] = m /\ slot[x] = n)
            BY <3>1, <5>1, <5>2 DEF Bus!PortConstants
          <5> QED BY <3>5, <5>2, <5>3
        <4> QED BY <4>1, <4>2
      <3>8. own' \subseteq Ports /\ Bus!OwnSlots'
        BY <1>a, <3>2, <3>7 DEF Bus!OwnSlots
      <3> QED BY <1>2, <3>4, <3>6, <3>8 DEF TreeInv
    <2> QED BY <2>1, <2>2
  <1> QED BY <1>0, <1>1, <1>4, NoOrderPrime DEF PortInv

LEMMA FirstOf ==
    ASSUME NEW S, S \subseteq Nat, S # {} PROVE Bus!First(S) \in S
  <1>1. \E i \in S : \A j \in S : i <= j
    BY Least
  <1>2. (CHOOSE i \in S : \A j \in S : i <= j) \in S
    BY <1>1
  <1> QED BY <1>2 DEF Bus!First

\* One that is to be called is taken out of the dispatch.
LEMMA DestroyOrder ==
    ASSUME called \in Seq(Ports), todo \in Seq(Ports), called # <<>>, NEW k \in 1..Len(todo),
           called' = called, todo' = RemoveAt(todo, k), master' = master, slot' = slot,
           PreOrder(Order, Total, Len(called), master, slot), NEW r, Rooted(Order, Total, r)
    PROVE  /\ todo' \in Seq(Ports) /\ PreOrder(Order', Total', Len(called'), master', slot')
           /\ Rooted(Order', Total', r)
           /\ \A i \in 1..Total : Order[i] # todo[k] => \E j \in 1..Total' : Order'[j] = Order[i]
  <1> DEFINE c == Len(called)
             n == c + k
             At(i) == IF i < n THEN i ELSE i + 1
  <1>1. /\ c \in Nat /\ Len(todo) \in Nat /\ Total = c + Len(todo) /\ c # 0
        /\ \A i \in 1..c : Order[i] = called[i]
        /\ \A i \in 1..Len(todo) : Order[c + i] = todo[i]
    BY OrderIs DEF Total
  <1>2. /\ todo' \in Seq(Ports) /\ Len(todo') = Len(todo) - 1
        /\ \A i \in 1..Len(todo)-1 : todo'[i] = IF i < k THEN todo[i] ELSE todo[i + 1]
    BY RemoveAtFacts
  <1>3. /\ Total' = Total - 1 /\ Total \in Nat /\ c \in 1..Total-1 /\ n \in c+1..Total
        /\ Order[n] = todo[k]
    <2>1. Total' = c + Len(todo')
      BY DEF Total
    <2>2. Order[n] = todo[k]
      BY <1>1
    <2>3. ASSUME NEW x \in Nat, NEW y \in Nat, y # 0, NEW z \in 1..x
          PROVE  y + (x - 1) = (y + x) - 1 /\ y + x \in Nat /\ y \in 1..(y + x)-1 /\ y + z \in y+1..y+x
      BY <2>3
    <2> QED BY <1>1, <1>2, <2>1, <2>2, <2>3
  <1>4. /\ \A i \in 1..c : Order'[i] = called[i]
        /\ \A i \in 1..Len(todo') : Order'[c + i] = todo'[i]
    <2>1. PICK A, B : A = called /\ B = todo'
      OBVIOUS
    <2>2. A \in Seq(Ports) /\ B \in Seq(Ports) /\ Order' = A \o B
      BY <1>2, <2>1 DEF Order
    <2>3. /\ \A i \in 1..Len(A) : (A \o B)[i] = A[i]
          /\ \A i \in 1..Len(B) : (A \o B)[Len(A) + i] = B[i]
      BY <2>2
    <2> QED BY <2>1, <2>2, <2>3
  <1>5. ASSUME NEW i \in 1..Total-1 PROVE Order'[i] = Order[At(i)]
    <2>1. CASE i \in 1..c
      <3>1. At(i) = i
        BY <1>1, <2>1
      <3> QED BY <1>1, <1>4, <2>1, <3>1
    <2>2. CASE i \notin 1..c
      <3>1. PICK j \in 1..Len(todo)-1 : i = c + j
        <4>1. i - c \in 1..Len(todo)-1 /\ i = c + (i - c)
          BY <1>1, <2>2
        <4> QED BY <4>1
      <3>2. Order'[i] = IF j < k THEN todo[j] ELSE todo[j + 1]
        BY <1>2, <1>4, <3>1
      <3>3. CASE j < k
        <4>1. At(i) = c + j /\ j \in 1..Len(todo)
          BY <1>1, <3>1, <3>3
        <4> QED BY <1>1, <3>2, <3>3, <4>1
      <3>4. CASE ~(j < k)
        <4>1. At(i) = c + (j + 1) /\ j + 1 \in 1..Len(todo)
          BY SMTT(30), <1>1, <3>1, <3>4
        <4> QED BY <1>1, <3>2, <3>4, <4>1
      <3> QED BY <3>3, <3>4
    <2> QED BY <2>1, <2>2
  <1>6. PreOrder(Order', Total - 1, c, master, slot)
    BY <1>3, <1>5, RemovalKeepsOrder
  <1>7. Rooted(Order', Total - 1, r)
    <2> SUFFICES ASSUME NEW i \in 1..Total-1 PROVE r[Order'[1]] <= r[Order'[i]]
      BY DEF Rooted
    <2>1. At(1) = 1 /\ 1 \in 1..Total-1 /\ At(i) \in 1..Total
      BY <1>1, <1>3
    <2>2. Order'[1] = Order[1] /\ Order'[i] = Order[At(i)]
      BY <1>5, <2>1
    <2> QED BY <2>1, <2>2 DEF Rooted
  <1>8. ASSUME NEW i \in 1..Total, Order[i] # todo[k] PROVE \E j \in 1..Total-1 : Order'[j] = Order[i]
    <2>1. i # n
      BY <1>3, <1>8
    <2>2. CASE i < n
      <3>1. i \in 1..Total-1 /\ At(i) = i
        BY <1>3, <2>2
      <3> QED BY <1>5, <3>1
    <2>3. CASE i > n
      <3>1. i - 1 \in 1..Total-1 /\ At(i - 1) = i
        BY <1>1, <1>3, <2>3
      <3> QED BY <1>5, <3>1
    <2>4. i \in Nat /\ n \in Nat
      BY <1>1
    <2> HIDE DEF n
    <2>5. i < n \/ i > n
      BY <2>1, <2>4
    <2> QED BY <2>2, <2>3, <2>5
  <1> QED BY <1>2, <1>3, <1>6, <1>7, <1>8

LEMMA DestroyKeeps ==
    ASSUME Bus!PortConstants, PortInv, NEW p \in Ports, Bus!Destroy(p)
    PROVE  PortInv'
  <1> DEFINE m == master[p]
             n == slot[p]
             v == subs[m][n]
             at == Bus!ToCome(v)
  <1>0. /\ subs' = [subs EXCEPT ![m][n] = None] /\ m # None /\ (todo # <<>> => called # <<>>)
        /\ todo' = IF at = {} THEN todo ELSE RemoveAt(todo, Bus!First(at))
        /\ own' = own \ {IF p \in own THEN p ELSE v}
        /\ master' = master /\ slot' = slot /\ called' = called /\ failed' = failed
    <2>1. m # None /\ (todo # <<>> => called # <<>>) /\ subs' = [subs EXCEPT ![m][n] = None]
      BY DEF Bus!Destroy
    <2>2. master' = master /\ slot' = slot /\ called' = called /\ failed' = failed
      BY DEF Bus!Destroy
    <2>3. todo' = IF at = {} THEN todo ELSE RemoveAt(todo, Bus!First(at))
      <3>1. \A s, i : Bus!RemoveAt(s, i) = RemoveAt(s, i)
        BY DEF Bus!RemoveAt, RemoveAt
      <3> QED BY <3>1 DEF Bus!Destroy
    <2>4. own' = own \ {IF p \in own THEN p ELSE v}
      BY DEF Bus!Destroy
    <2> QED BY <2>1, <2>2, <2>3, <2>4
  <1>1. /\ TreeInv /\ OrderInv /\ own \subseteq Ports /\ m \in Ports /\ n \in 1..SlotMax
        /\ called \in Seq(Ports) /\ todo \in Seq(Ports) /\ Len(todo) \in Nat
        /\ subs \in [Ports -> [1..SlotMax -> Ports \cup {None}]] /\ None \notin Ports
        /\ slot \in [Ports -> 1..SlotMax] /\ master \in [Ports -> Ports \cup {None}]
    <2>1. TreeInv /\ OrderInv /\ own \subseteq Ports /\ None \notin Ports
      BY DEF PortInv, Bus!PortConstants
    <2>2. called \in Seq(Ports) /\ todo \in Seq(Ports) /\ Len(todo) \in Nat
      BY <2>1 DEF OrderInv
    <2>3. /\ subs \in [Ports -> [1..SlotMax -> Ports \cup {None}]]
          /\ slot \in [Ports -> 1..SlotMax] /\ master \in [Ports -> Ports \cup {None}]
      BY <2>1 DEF TreeInv
    <2>4. m # None
      BY <1>0
    <2>5. m \in Ports /\ n \in 1..SlotMax
      BY <2>3, <2>4
    <2> QED BY <2>1, <2>2, <2>3, <2>5
  <1> HIDE DEF m, n
  <1>2. /\ subs' \in [Ports -> [1..SlotMax -> Ports \cup {None}]]
        /\ \A x \in Ports, i \in 1..SlotMax : subs'[x][i] = IF x = m /\ i = n THEN None ELSE subs[x][i]
    <2>1. \A x \in Ports : [subs[x] EXCEPT ![n] = None] \in [1..SlotMax -> Ports \cup {None}]
      BY <1>1
    <2>2. subs' = [x \in Ports |-> IF x = m THEN [subs[x] EXCEPT ![n] = None] ELSE subs[x]]
      BY <1>0, <1>1
    <2> QED BY <1>1, <2>1, <2>2
  <1>3. \A x, q \in Ports, i \in 1..SlotMax : subs[x][i] = q => master[q] = x /\ slot[q] = i
    BY <1>1 DEF TreeInv, Bus!SlotsAgree
  <1>4. TreeInv'
    <2>1. Bus!SlotsAgree'
      <3> SUFFICES ASSUME NEW x \in Ports, NEW q \in Ports, NEW i \in 1..SlotMax, subs'[x][i] = q
                   PROVE  master[q] = x /\ slot[q] = i
        BY <1>0 DEF Bus!SlotsAgree
      <3>1. subs[x][i] = q
        BY <1>1, <1>2
      <3> QED BY <1>3, <3>1
    <2> QED BY <1>0, <1>1, <1>2, <2>1 DEF TreeInv
  <1>5. own' \subseteq Ports /\ Bus!OwnSlots'
    <2>1. ASSUME NEW x \in own' PROVE master[x] # None /\ subs'[master[x]][slot[x]] = x
      <3>1. /\ x \in own /\ x \in Ports /\ master[x] # None /\ subs[master[x]][slot[x]] = x
            /\ master[x] \in Ports /\ slot[x] \in 1..SlotMax
        BY <1>0, <1>1, <2>1 DEF PortInv, Bus!OwnSlots
      <3>2. x # v
        <4>1. CASE p \in own
          <5>1. v = p
            BY <4>1 DEF PortInv, Bus!OwnSlots, m, n
          <5> QED BY <1>0, <2>1, <4>1, <5>1
        <4>2. CASE p \notin own
          BY <1>0, <2>1, <4>2
        <4> QED BY <4>1, <4>2
      <3>3. ~(master[x] = m /\ slot[x] = n)
        BY <3>1, <3>2
      <3> QED BY <1>2, <3>1, <3>3
    <2> QED BY <1>0, <1>1, <2>1 DEF Bus!OwnSlots
  <1>6. ASSUME NEW q \in Ports, Bus!Listed(q)' PROVE Bus!Listed(q) /\ q # v
    <2>1. PICK i \in 1..SlotMax : subs'[master[q]][i] = q
      BY <1>0, <1>6 DEF Bus!Listed
    <2>2. master[q] \in Ports /\ master[q] # None
      BY <1>0, <1>1, <1>6 DEF Bus!Listed
    <2>3. subs[master[q]][i] = q /\ ~(master[q] = m /\ i = n)
      BY <1>1, <1>2, <2>1, <2>2
    <2>4. q # v
      <3>1. slot[q] = i
        BY <1>3, <2>2, <2>3
      <3>2. subs[m][n] = q => master[q] = m /\ slot[q] = n
        BY <1>1, <1>3
      <3> QED BY <2>3, <3>1, <3>2
    <2> QED BY <2>2, <2>3, <2>4 DEF Bus!Listed
  <1> HIDE DEF v
  <1>7. PICK r : Ranked(r, master) /\ Rooted(Order, Total, r)
    BY DEF PortInv
  <1>8. CASE at = {}
    <2>1. todo' = todo
      BY <1>0, <1>8
    <2>2. Order' = Order /\ Total' = Total
      BY <1>0, <2>1 DEF Order, Total
    <2>3. OrderInv'
      BY <1>0, <1>1, <1>6, <2>1, <2>2 DEF OrderInv
    <2> QED BY <1>0, <1>4, <1>5, <1>7, <2>2, <2>3 DEF PortInv
  <1>9. CASE at # {}
    <2>1. PICK k \in 1..Len(todo) : todo[k] = v /\ todo' = RemoveAt(todo, k)
      <3>1. at = {k \in 1..Len(todo) : todo[k] = v}
        BY DEF Bus!ToCome
      <3> HIDE DEF at
      <3>2. at \subseteq Nat
        BY <3>1
      <3>3. Bus!First(at) \in at
        BY <1>9, <3>2, FirstOf
      <3> QED BY <1>0, <1>9, <3>1, <3>3
    <2> HIDE DEF at
    <2>2. called # <<>> /\ PreOrder(Order, Total, Len(called), master, slot)
      <3>1. todo # <<>>
        BY <1>1, <2>1
      <3> QED BY <1>0, <1>1, <3>1 DEF OrderInv
    <2>3. /\ todo' \in Seq(Ports) /\ PreOrder(Order', Total', Len(called'), master', slot')
          /\ Rooted(Order', Total', r)
          /\ \A i \in 1..Total : Order[i] # v => \E j \in 1..Total' : Order'[j] = Order[i]
      BY <1>0, <1>1, <1>7, <2>1, <2>2, DestroyOrder
    <2>4. ~failed
      <3>1. todo # <<>>
        BY <1>1, <2>1
      <3> QED BY <1>1, <3>1 DEF OrderInv
    <2>5. ASSUME NEW q \in Ports, Bus!Listed(q)', NEW j \in 1..Len(called'), called'[j] = master'[q]
          PROVE  \E i \in 1..Total' : Order'[i] = q
      <3>1. Bus!Listed(q) /\ q # v /\ j \in 1..Len(called) /\ called[j] = master[q]
        BY <1>0, <1>6, <2>5
      <3>2. PICK i \in 1..Total : Order[i] = q
        BY <1>1, <2>4, <3>1 DEF OrderInv
      <3> QED BY <2>3, <3>1, <3>2
    <2>6. OrderInv'
      BY <1>0, <1>1, <2>3, <2>4, <2>5 DEF OrderInv
    <2> QED BY <1>0, <1>4, <1>5, <1>7, <2>3, <2>6 DEF PortInv
  <1> QED BY <1>8, <1>9

LEMMA DispatchKeeps ==
    ASSUME Bus!PortConstants, PortInv, NEW p \in Ports, Bus!Dispatch(p)
    PROVE  PortInv'
  <1>0. /\ subs' = subs /\ master' = master /\ slot' = slot
        /\ called' = <<>> /\ todo' = <<p>> /\ failed' = FALSE /\ TreeInv /\ own' = own
    BY DEF Bus!Dispatch, PortInv
  <1>1. TreeInv' /\ own' \subseteq Ports /\ Bus!OwnSlots'
    BY <1>0 DEF PortInv, TreeInv, Bus!SlotsAgree, Bus!OwnSlots
  <1>2. /\ Total' = 1 /\ Len(called') = 0 /\ Order' = <<p>>
        /\ called' \in Seq(Ports) /\ todo' \in Seq(Ports)
    BY <1>0 DEF Total, Order
  <1>3. OrderInv'
    <2>1. PreOrder(Order', 1, 0, master', slot')
      BY <1>2 DEF PreOrder
    <2> QED BY <1>0, <1>2, <2>1 DEF OrderInv
  <1>4. PICK r : Ranked(r, master')
    BY <1>0 DEF PortInv
  <1>5. Rooted(Order', 1, r)
    <2>1. r[p] \in Nat
      BY <1>4 DEF Ranked
    <2> QED BY <1>2, <2>1 DEF Rooted
  <1> QED BY <1>1, <1>2, <1>3, <1>4, <1>5 DEF PortInv

\* A failing handler ends the dispatch: what is left is what was called.
LEMMA FailureKeepsOrder ==
    ASSUME NEW M, NEW sl, NEW s, NEW N \in Nat, NEW c \in 0..N-1, PreOrder(s, N, c, M, sl),
           NEW t, \A i \in 1..c+1 : t[i] = s[i]
    PROVE  PreOrder(t, c + 1, c + 1, M, sl)
  <1>1. \A i \in 1..c+1 : i \in 1..N
    OBVIOUS
  <1>2. \A i \in 2..c+1 : i \in 2..N /\ i \in 1..c+1 /\ i - 1 \in 1..c+1 /\ i <= c + 1
    OBVIOUS
  <1>3. \A i, j \in 1..c+1 : t[i] = t[j] => i = j
    BY <1>1 DEF PreOrder
  <1>4. ASSUME NEW i \in 2..c+1 PROVE \E j \in 1..c+1 : j < i /\ t[j] = M[t[i]]
    <2>1. PICK j \in 1..c : j < i /\ s[j] = M[s[i]]
      BY <1>2 DEF PreOrder
    <2>2. j \in 1..c+1
      OBVIOUS
    <2> QED BY <1>2, <2>1, <2>2
  <1>5. \A i, j \in 2..c+1 : j < i /\ M[t[j]] = M[t[i]] => sl[t[j]] < sl[t[i]]
    BY <1>2 DEF PreOrder
  <1>6. ASSUME NEW i \in 2..c+1, M[t[i]] # t[i-1], NEW k \in i+1..c+1
        PROVE  M[t[k]] # t[i-1]
    <2>1. k \in i+1..N /\ k \in 1..c+1
      OBVIOUS
    <2>2. t[k] = s[k] /\ t[i] = s[i] /\ t[i-1] = s[i-1]
      BY <1>2, <2>1
    <2> QED BY <1>2, <1>6, <2>1, <2>2 DEF PreOrder
  <1>7. \A i \in (c+1)+1..c+1 : FALSE
    OBVIOUS
  <1> QED BY <1>3, <1>4, <1>5, <1>6, <1>7 DEF PreOrder

LEMMA HandleKeeps ==
    ASSUME Bus!PortConstants, PortInv, NEW ok \in BOOLEAN, Bus!Handle(ok)
    PROVE  PortInv'
  <1> DEFINE c == Len(called)
             p == Head(todo)
             u == Bus!Subs(p)
             m == Len(u)
  <1>1. /\ todo # <<>> /\ called \in Seq(Ports) /\ todo \in Seq(Ports) /\ TreeInv
        /\ called' = Append(called, p)
        /\ subs' = subs /\ master' = master /\ slot' = slot /\ own' = own
    BY DEF Bus!Handle, PortInv, OrderInv
  <1>2. /\ c \in Nat /\ Len(todo) \in Nat /\ Len(todo) # 0 /\ Total \in Nat
        /\ Total = c + Len(todo)
        /\ \A i \in 1..Total : Order[i] \in Ports
        /\ \A i \in 1..c : Order[i] = called[i]
        /\ \A i \in 1..Len(todo) : Order[c + i] = todo[i]
    BY SMTT(30), <1>1, OrderIs DEF Total
  <1>3. /\ p \in Ports /\ p = todo[1] /\ p = Order[c + 1] /\ c \in 0..Total-1
        /\ called' \in Seq(Ports) /\ Len(called') = c + 1
    <2>1. p \in Ports /\ p = todo[1] /\ 1 \in 1..Len(todo)
      BY <1>1, <1>2
    <2> QED BY <1>1, <1>2, <2>1
  <1>4. \A i \in 1..c+1 : called'[i] = Order[i]
    <2>1. \A i \in 1..c+1 : called'[i] = IF i = c + 1 THEN p ELSE called[i]
      BY <1>1, <1>2
    <2>2. \A i \in 1..c+1 : i = c + 1 \/ i \in 1..c
      BY <1>2
    <2> QED BY <1>2, <1>3, <2>1, <2>2
  <1>5. PreOrder(Order, Total, c, master, slot)
    BY DEF PortInv, OrderInv
  <1>6. PICK r : Ranked(r, master) /\ Rooted(Order, Total, r)
    BY DEF PortInv
  <1>7. TreeInv' /\ own' \subseteq Ports /\ Bus!OwnSlots'
    BY <1>1 DEF PortInv, TreeInv, Bus!SlotsAgree, Bus!OwnSlots
  <1>8. CASE ~ok
    <2>1. todo' = <<>> /\ failed' = TRUE
      BY <1>8 DEF Bus!Handle
    <2> HIDE DEF c, p, u, m
    <2>2. /\ Order' \in Seq(Ports) /\ Total' = c + 1 /\ todo' \in Seq(Ports)
          /\ \A i \in 1..c+1 : Order'[i] = Order[i]
      BY <1>3, <1>4, <2>1, <1>2 DEF Order, Total
    <2>3. PreOrder(Order', c + 1, c + 1, master, slot)
      BY <1>2, <1>3, <1>5, <2>2, FailureKeepsOrder
    <2>4. OrderInv'
      BY <1>1, <1>3, <2>1, <2>2, <2>3 DEF OrderInv
    <2>5. Rooted(Order', Total', r)
      <3>1. \A i \in 1..c+1 : i \in 1..Total
        BY <1>2, <1>3
      <3>2. 1 \in 1..c+1
        BY <1>2
      <3> QED BY <1>6, <2>2, <3>1, <3>2 DEF Rooted
    <2> QED BY <1>1, <1>6, <1>7, <2>4, <2>5 DEF PortInv
  <1>9. CASE ok
    <2>1. todo' = u \o Tail(todo) /\ failed' = FALSE
      BY <1>9 DEF Bus!Handle
    <2>2. /\ u \in Seq(Ports) /\ m \in Nat
          /\ \A i \in 1..m : u[i] \in Ports /\ master[u[i]] = p /\ slot[u[i]] \in Nat
          /\ \A i, j \in 1..m : i < j => slot[u[i]] < slot[u[j]]
          /\ \A q \in Ports : Bus!Listed(q) /\ master[q] = p => \E i \in 1..m : u[i] = q
      BY <1>1, <1>3, SubsAre
    <2> HIDE DEF c, p, u, m
    <2>3. /\ todo' \in Seq(Ports) /\ Len(todo') = m + Len(todo) - 1
          /\ \A i \in 1..m : todo'[i] = u[i]
          /\ \A i \in 2..Len(todo) : todo'[m + i - 1] = todo[i]
      <3>1. /\ Tail(todo) \in Seq(Ports) /\ Len(Tail(todo)) = Len(todo) - 1
            /\ \A i \in 1..Len(todo)-1 : Tail(todo)[i] = todo[i + 1]
        BY <1>1
      <3>2. PICK R : R = Tail(todo)
        OBVIOUS
      <3>3. /\ u \o R \in Seq(Ports) /\ Len(u \o R) = m + Len(todo) - 1
            /\ \A i \in 1..m : (u \o R)[i] = u[i]
            /\ \A i \in 1..Len(todo)-1 : (u \o R)[m + i] = R[i]
        BY <1>2, <2>2, <3>1, <3>2 DEF m
      <3>4. ASSUME NEW i \in 2..Len(todo) PROVE todo'[m + i - 1] = todo[i]
        <4>1. PICK j \in 1..Len(todo)-1 : i = j + 1
          <5>1. i - 1 \in 1..Len(todo)-1 /\ i = (i - 1) + 1
            BY <1>2
          <5> QED BY <5>1
        <4>2. m + i - 1 = m + j
          BY <2>2, <4>1
        <4> QED BY <2>1, <3>1, <3>2, <3>3, <4>1, <4>2
      <3> QED BY <2>1, <3>2, <3>3, <3>4
    <2>4. /\ Total' = Total + m
          /\ \A i \in 1..c+1 : Order'[i] = called'[i]
          /\ \A i \in 1..Len(todo') : Order'[c + 1 + i] = todo'[i]
      <3>1. Total' = Len(called') + Len(todo')
        BY DEF Total
      <3>2. Total' = Total + m
        BY <1>2, <1>3, <2>2, <2>3, <3>1
      <3>3. PICK A, B : A = called' /\ B = todo'
        OBVIOUS
      <3>4. A \in Seq(Ports) /\ B \in Seq(Ports) /\ Len(A) = c + 1
        BY <1>3, <2>3, <3>3
      <3>5. /\ \A i \in 1..Len(A) : (A \o B)[i] = A[i]
            /\ \A i \in 1..Len(B) : (A \o B)[Len(A) + i] = B[i]
        BY <3>4
      <3>6. Order' = A \o B
        BY <3>3 DEF Order
      <3> QED BY <3>2, <3>3, <3>4, <3>5, <3>6
    <2>5. PutIn(Order', Order, u, Total, c, m)
      <3>1. \A i \in 1..c+1 : Order'[i] = Order[i]
        BY <1>4, <2>4
      <3>2. \A i \in 1..m : Order'[c + 1 + i] = u[i]
        <4>1. \A i \in 1..m : i \in 1..Len(todo')
          BY <1>2, <2>2, <2>3
        <4> QED BY <2>3, <2>4, <4>1
      <3>3. ASSUME NEW i \in c+2..Total PROVE Order'[m + i] = Order[i]
        <4>1. PICK j \in 2..Len(todo) : i = c + j
          <5>1. i - c \in 2..Len(todo) /\ i = c + (i - c)
            BY <1>2
          <5> QED BY <5>1
        <4>2. m + j - 1 \in 1..Len(todo') /\ m + i = c + 1 + (m + j - 1) /\ j \in 1..Len(todo)
          BY SMTT(30), <1>2, <2>2, <2>3, <4>1
        <4>3. Order'[m + i] = todo'[m + j - 1]
          BY <2>4, <4>2
        <4> QED BY <1>2, <2>3, <4>1, <4>2, <4>3
      <3> QED BY <3>1, <3>2, <3>3 DEF PutIn
    <2>6. \A i \in 1..Total : master[Order[i]] # Order[c + 1]
      <3>1. 1 \in 1..Total /\ Order[1] \in Ports /\ r[Order[1]] <= r[p]
        BY <1>2, <1>3, <1>6 DEF Rooted
      <3>2. r[Order[1]] \in Nat /\ r[p] \in Nat /\ p # None
        BY <1>3, <1>6, <3>1 DEF Ranked, Bus!PortConstants
      <3>3. master[Order[1]] # p
        BY <1>6, <3>1, <3>2 DEF Ranked
      <3> QED BY <1>2, <1>3, <1>5, <3>3, NothingBelowYet
    <2>7. PreOrder(Order', Total + m, c + 1, master, slot)
      BY <1>1, <1>2, <1>3, <1>5, <2>2, <2>5, <2>6, CallKeepsOrder DEF TreeInv
    <2>8. \A i \in 1..Total : \E k \in 1..Total+m : Order'[k] = Order[i]
      <3> SUFFICES ASSUME NEW i \in 1..Total PROVE \E k \in 1..Total+m : Order'[k] = Order[i]
        OBVIOUS
      <3>1. CASE i <= c + 1
        <4>1. i \in 1..Total+m /\ i \in 1..c+1
          BY <1>2, <2>2, <3>1
        <4> QED BY <2>5, <4>1 DEF PutIn
      <3>2. CASE i > c + 1
        <4>1. m + i \in 1..Total+m /\ i \in c+2..Total
          BY <1>2, <2>2, <3>2
        <4> QED BY <2>5, <4>1 DEF PutIn
      <3> QED BY <1>2, <3>1, <3>2
    <2>9. ASSUME ~failed', NEW q \in Ports, Bus!Listed(q)',
                 NEW j \in 1..c+1, called'[j] = master[q]
          PROVE  \E k \in 1..Total+m : Order'[k] = q
      <3>1. Bus!Listed(q)
        BY <1>1, <2>9 DEF Bus!Listed
      <3>2. CASE j = c + 1
        <4>1. master[q] = p
          BY <1>3, <1>4, <2>9, <3>2
        <4>2. PICK i \in 1..m : u[i] = q
          BY <2>2, <3>1, <4>1
        <4>3. c + 1 + i \in 1..Total+m /\ Order'[c + 1 + i] = q
          BY <1>2, <1>3, <2>2, <2>5, <4>2 DEF PutIn
        <4> QED BY <4>3
      <3>3. CASE j # c + 1
        <4>1. j \in 1..c
          BY <1>2, <3>3
        <4>2. called[j] = master[q]
          BY <1>2, <1>4, <2>9, <4>1
        <4>3. ~failed
          BY <1>1 DEF PortInv, OrderInv
        <4>4. PICK i \in 1..Total : Order[i] = q
          BY <3>1, <4>1, <4>2, <4>3 DEF PortInv, OrderInv, c
        <4> QED BY <2>8, <4>4
      <3> QED BY <3>2, <3>3
    <2>10. OrderInv'
      <3>1. failed' = FALSE
        BY <2>1
      <3> QED BY <1>1, <1>3, <2>3, <2>4, <2>7, <2>9, <3>1 DEF OrderInv
    <2>11. Rooted(Order', Total + m, r)
      <3>0. \A q \in Ports : r[q] \in Nat
        BY <1>6 DEF Ranked
      <3>1. Order'[1] = Order[1] /\ 1 \in 1..Total
        BY <1>2, <1>3, <2>5 DEF PutIn
      <3> SUFFICES ASSUME NEW i \in 1..Total+m PROVE r[Order[1]] <= r[Order'[i]]
        BY <3>1 DEF Rooted
      <3>2. CASE i \in 1..c+1
        <4>1. i \in 1..Total /\ Order'[i] = Order[i]
          BY <1>2, <1>3, <2>5, <3>2 DEF PutIn
        <4> QED BY <1>6, <4>1 DEF Rooted
      <3>3. CASE i \in c+2..c+1+m
        <4>1. PICK j \in 1..m : i = c + 1 + j
          <5>1. i - (c + 1) \in 1..m /\ i = c + 1 + (i - (c + 1))
            BY <1>2, <2>2, <3>3
          <5> QED BY <5>1
        <4>2. Order'[i] = u[j] /\ u[j] \in Ports /\ master[u[j]] = p
          BY <2>2, <2>5, <4>1 DEF PutIn
        <4>3. r[p] < r[u[j]]
          BY <1>3, <1>6, <4>2 DEF Ranked, Bus!PortConstants
        <4>4. r[Order[1]] <= r[p]
          BY <1>2, <1>3, <1>6 DEF Rooted
        <4>5. r[Order[1]] \in Nat /\ r[p] \in Nat /\ r[u[j]] \in Nat
          BY <1>2, <1>3, <3>0, <3>1, <4>2
        <4> QED BY <4>2, <4>3, <4>4, <4>5
      <3>4. CASE i \in c+2+m..Total+m
        <4>1. i - m \in c+2..Total /\ i = m + (i - m) /\ i - m \in 1..Total
          BY <1>2, <2>2, <3>4
        <4>2. Order'[i] = Order[i - m]
          BY <2>5, <4>1 DEF PutIn
        <4> QED BY <1>6, <4>1, <4>2 DEF Rooted
      <3>5. i \in 1..c+1 \/ i \in c+2..c+1+m \/ i \in c+2+m..Total+m
        BY <1>2, <2>2
      <3> QED BY <3>2, <3>3, <3>4, <3>5
    <2> QED BY <1>1, <1>6, <1>7, <2>4, <2>10, <2>11 DEF PortInv
  <1> QED BY <1>8, <1>9

LEMMA PortStep == ASSUME Bus!PortConstants, PortInv, [Bus!Next]_Bus!vars PROVE PortInv'
  <1>1. CASE UNCHANGED Bus!vars
    <2>1. /\ subs' = subs /\ master' = master /\ slot' = slot /\ called' = called
          /\ todo' = todo /\ failed' = failed /\ own' = own
      BY <1>1 DEF Bus!vars
    <2>2. Order' = Order /\ Total' = Total
      BY <2>1 DEF Order, Total
    <2>3. TreeInv' /\ own' \subseteq Ports /\ Bus!OwnSlots'
      BY <2>1 DEF PortInv, TreeInv, Bus!SlotsAgree, Bus!OwnSlots
    <2>4. OrderInv'
      BY <2>1, <2>2 DEF PortInv, OrderInv, Bus!Listed
    <2> QED BY <2>1, <2>2, <2>3, <2>4 DEF PortInv
  <1> QED BY <1>1, ConnectKeeps, DestroyKeeps, DispatchKeeps, HandleKeeps DEF Bus!Next

(***************************************************************************)
(* Ports keep their slots and masters over every order of connections and  *)
(* destructions, those included that clear the slot of another port, and   *)
(* no other ever does; PORT_Dispatch calls every port below the one it is  *)
(* given once, a master before its slots and the slots in order, with all  *)
(* that is below one of them before the next, or ends at the handler that  *)
(* fails, whatever the handlers destroy meanwhile (port.c); for any tree   *)
(* of any number of ports.                                                 *)
(***************************************************************************)
THEOREM PortsInOrder ==
    ASSUME Bus!PortConstants
    PROVE  Bus!Spec => [](Bus!SlotsAgree /\ Bus!OwnSlots /\ Bus!DispatchInOrder)
  <1>1. Bus!Init => PortInv
    BY InitPortInv
  <1>2. PortInv /\ [Bus!Next]_Bus!vars => PortInv'
    BY PortStep
  <1>3. PortInv => Bus!SlotsAgree /\ Bus!OwnSlots /\ Bus!DispatchInOrder
    BY InOrder DEF PortInv
  <1> QED BY <1>1, <1>2, <1>3, PTL DEF Bus!Spec

----------------------------------------------------------------------------
(***************************************************************************)
(* The session server.  A pass over the clients keeps, while it serves     *)
(* cc1, the client behind it in cc; the calls that unlink clients in the   *)
(* middle of the list come between two passes, and within one only cc1 is  *)
(* unlinked.  So the list holds every client once, both pointers are to    *)
(* members of it, and cc is not cc1.                                       *)
(***************************************************************************)
Peer == [wrote : Nat, closed : BOOLEAN, here : BOOLEAN]
Client == [session : Sessions \cup {None}, playing : BOOLEAN,
           read : Nat, reqlen : Nat, handled : Nat]

Once(l) == \A i, j \in 1..Len(l) : l[i] = l[j] => i = j
In(l, x) == \E i \in 1..Len(l) : l[i] = x

\* The bytes of client x with peer y.
Counted(x, y) ==
    /\ x.read = MsgLen * x.handled + x.reqlen
    /\ x.reqlen <= BufMax /\ x.read <= y.wrote

NegInv ==
    /\ sessions \in Seq(Sessions) /\ clients \in Seq(Clients) /\ Once(clients)
    /\ peer \in [Clients -> Peer] /\ cc \in [Clients -> Client]
    /\ walk.cc # None => In(clients, walk.cc)
    /\ walk.cc1 # None => In(clients, walk.cc1) /\ walk.cc = Neg!GetNext(clients, walk.cc1)
    /\ \A c \in Clients : In(clients, c) =>
          /\ Counted(cc[c], peer[c])
          /\ cc[c].session # None => In(sessions, cc[c].session)

LEMMA UnlinkedIs ==
    ASSUME NEW S, NEW l \in Seq(S), NEW C, NEW r, r = Neg!Unlinked(l, C)
    PROVE  /\ r \in Seq(S)
           /\ \A x : In(r, x) <=> In(l, x) /\ x \notin C
           /\ Once(l) => Once(r)
  <1>1. PICK N \in Nat : N = Len(l)
    OBVIOUS
  <1> DEFINE Loop(f) == Taking(f, l, N, C)
             u == CHOOSE f : f = Loop(f)
  <1>2. r = u[N]
    BY <1>1 DEF Neg!Unlinked, Taking
  <1>3. u = Loop(u)
    <2> HIDE DEF Loop
    <2>1. \E f : f = Loop(f)
      BY LoopRuns DEF Loop
    <2> QED BY <2>1
  <1> HIDE DEF u
  <1>4. \A i \in 1..N : l[i] \in S
    BY <1>1
  <1>5. r \in Seq(S) /\ Kept(r, l, N, C)
    BY <1>2, <1>3, <1>4, TakenIsKept
  <1>6. PICK at \in [1..Len(r) -> 1..N] :
            /\ \A j \in 1..Len(r) : r[j] = l[at[j]] /\ l[at[j]] \notin C
            /\ \A i, j \in 1..Len(r) : i < j => at[i] < at[j]
            /\ \A i \in 1..N : l[i] \notin C => \E j \in 1..Len(r) : at[j] = i
    BY <1>5 DEF Kept
  <1>7. \A j \in 1..Len(r) : at[j] \in 1..N
    OBVIOUS
  <1>8. ASSUME NEW x, In(r, x) PROVE In(l, x) /\ x \notin C
    BY <1>1, <1>6, <1>7, <1>8 DEF In
  <1>9. ASSUME NEW x, In(l, x), x \notin C PROVE In(r, x)
    <2>1. PICK i \in 1..N : l[i] = x
      BY <1>1, <1>9 DEF In
    <2>2. PICK j \in 1..Len(r) : at[j] = i
      BY <1>6, <1>9, <2>1
    <2> QED BY <1>6, <2>1, <2>2 DEF In
  <1>10. ASSUME Once(l), NEW i \in 1..Len(r), NEW j \in 1..Len(r), r[i] = r[j]
         PROVE  i = j
    <2>1. l[at[i]] = l[at[j]] /\ at[i] \in 1..N /\ at[j] \in 1..N
      BY <1>6, <1>7, <1>10
    <2>2. at[i] = at[j]
      BY <1>1, <1>10, <2>1 DEF Once
    <2>3. Len(r) \in Nat
      BY <1>5
    <2>4. ~(i < j) /\ ~(j < i)
      BY <1>6, <2>1, <2>2
    <2> QED BY <2>3, <2>4
  <1>11. Once(l) => Once(r)
    BY <1>10 DEF Once
  <1>12. \A x : In(r, x) <=> In(l, x) /\ x \notin C
    BY <1>8, <1>9
  <1> QED BY <1>5, <1>11, <1>12

\* DL_ListGetNext gives the head, the one behind a member, or NULL.
LEMMA NextIs ==
    ASSUME NEW S, NEW l \in Seq(S), None \notin S, Once(l)
    PROVE  /\ Neg!GetNext(l, None) # None => In(l, Neg!GetNext(l, None))
           /\ \A c : In(l, c) /\ Neg!GetNext(l, c) # None =>
                  In(l, Neg!GetNext(l, c)) /\ Neg!GetNext(l, c) # c
  <1>1. Len(l) \in Nat /\ \A i \in 1..Len(l) : l[i] \in S /\ l[i] # None
    OBVIOUS
  <1>2. Neg!GetNext(l, None) # None => In(l, Neg!GetNext(l, None))
    <2>1. Neg!GetNext(l, None) = IF 0 = Len(l) THEN None ELSE l[1]
      BY DEF Neg!GetNext
    <2>2. CASE Len(l) = 0
      BY <2>1, <2>2
    <2>3. CASE Len(l) # 0
      BY <1>1, <2>1, <2>3 DEF In
    <2> QED BY <2>2, <2>3
  <1>3. ASSUME NEW c, In(l, c), Neg!GetNext(l, c) # None
        PROVE  In(l, Neg!GetNext(l, c)) /\ Neg!GetNext(l, c) # c
    <2>1. PICK k \in 1..Len(l) : l[k] = c
      BY <1>3 DEF In
    <2>2. c # None
      BY <1>1, <2>1
    <2>3. PICK i : i = CHOOSE j \in DOMAIN l : l[j] = c
      OBVIOUS
    <2>4. DOMAIN l = 1..Len(l)
      OBVIOUS
    <2>5. i \in 1..Len(l) /\ l[i] = c
      BY <2>1, <2>3, <2>4
    <2>6. Neg!GetNext(l, c) = IF i = Len(l) THEN None ELSE l[i + 1]
      BY <2>2, <2>3 DEF Neg!GetNext
    <2>7. i # Len(l) /\ Neg!GetNext(l, c) = l[i + 1] /\ i + 1 \in 1..Len(l) /\ i + 1 # i
      BY <1>1, <1>3, <2>5, <2>6
    <2>8. l[i + 1] # c
      BY <2>5, <2>7 DEF Once
    <2> QED BY <2>7, <2>8 DEF In
  <1> QED BY <1>2, <1>3

\* What is in a list is in one that is longer by an entry, and nothing else but that entry is.
LEMMA LongerIs ==
    ASSUME NEW l, NEW r, NEW x, Len(l) \in Nat, Len(r) = Len(l) + 1, r[Len(r)] = x,
           \A i \in 1..Len(l) : r[i] = l[i]
    PROVE  \A y : In(r, y) <=> In(l, y) \/ y = x
  <1>1. \A i \in 1..Len(r) : i \in 1..Len(l) \/ i = Len(r)
    OBVIOUS
  <1>2. Len(r) \in 1..Len(r) /\ \A i \in 1..Len(l) : i \in 1..Len(r)
    OBVIOUS
  <1> QED BY <1>1, <1>2 DEF In

LEMMA AppendOnce ==
    ASSUME NEW S, NEW l \in Seq(S), NEW x \in S, NEW r, r = Append(l, x), Once(l), ~In(l, x)
    PROVE  Once(r)
  <1>1. /\ Len(l) \in Nat /\ Len(r) = Len(l) + 1 /\ r[Len(l) + 1] = x
        /\ \A i \in 1..Len(l) : r[i] = l[i]
    OBVIOUS
  <1>2. \A i \in 1..Len(r) : i \in 1..Len(l) \/ i = Len(l) + 1
    BY <1>1
  <1> QED BY <1>1, <1>2 DEF In, Once

\* Clients leave; those that stay are as they were.
LEMMA FreeKeeps ==
    ASSUME NegInv, NEW C, Neg!FreeClients(C)
    PROVE  /\ clients' \in Seq(Clients) /\ Once(clients')
           /\ peer' \in [Clients -> Peer] /\ cc' \in [Clients -> Client]
           /\ \A c : In(clients', c) <=> In(clients, c) /\ c \notin C
           /\ \A c \in Clients : In(clients', c) => cc'[c] = cc[c] /\ peer'[c] = peer[c]
  <1>1. clients \in Seq(Clients) /\ Once(clients) /\ peer \in [Clients -> Peer]
        /\ cc \in [Clients -> Client]
    BY DEF NegInv
  <1>2. clients' = Neg!Unlinked(clients, C)
    BY DEF Neg!FreeClients
  <1>3. /\ clients' \in Seq(Clients) /\ Once(clients')
        /\ \A c : In(clients', c) <=> In(clients, c) /\ c \notin C
    BY <1>1, <1>2, UnlinkedIs
  <1>4. /\ peer' = [c \in Clients |-> IF c \in C THEN [peer[c] EXCEPT !.here = FALSE] ELSE peer[c]]
        /\ cc' = [c \in Clients |-> IF c \in C THEN Neg!NewClient ELSE cc[c]]
    BY DEF Neg!FreeClients
  <1>5. Neg!NewClient \in Client
    BY DEF Neg!NewClient, Client
  <1>6. \A c \in Clients : [peer[c] EXCEPT !.here = FALSE] \in Peer
    BY <1>1 DEF Peer
  <1>7. peer' \in [Clients -> Peer] /\ cc' \in [Clients -> Client]
    BY <1>1, <1>4, <1>5, <1>6
  <1>8. \A c \in Clients : c \notin C => cc'[c] = cc[c] /\ peer'[c] = peer[c]
    BY <1>4
  <1> QED BY <1>3, <1>7, <1>8

LEMMA InitNegInv == ASSUME Neg!NeganConstants, Neg!Init PROVE NegInv
  <1>1. Neg!NewClient \in Client
    BY DEF Neg!NewClient, Client
  <1>2. /\ sessions = <<>> /\ clients = <<>> /\ walk = Neg!Quiet
        /\ peer \in [Clients -> Peer] /\ cc \in [Clients -> Client]
    BY <1>1 DEF Neg!Init, Peer
  <1>3. walk.cc = None /\ walk.cc1 = None /\ Len(clients) = 0
    BY <1>2 DEF Neg!Quiet
  <1> QED BY <1>2, <1>3 DEF NegInv, In, Once

\* The peers write and close, and a new one comes.
LEMMA PeersKeep ==
    ASSUME Neg!NeganConstants, NegInv, NEW c \in Clients,
           Neg!Connect(c) \/ Neg!Write(c) \/ Neg!Close(c)
    PROVE  NegInv'
  <1>1. /\ sessions' = sessions /\ clients' = clients /\ cc' = cc /\ walk' = walk
        /\ peer \in [Clients -> Peer]
    BY DEF Neg!Connect, Neg!Write, Neg!Close, NegInv
  <1>2. /\ peer' \in [Clients -> Peer]
        /\ \A d \in Clients : In(clients, d) => peer'[d].wrote >= peer[d].wrote
    <2>1. CASE Neg!Connect(c)
      <3>1. /\ peer' = [peer EXCEPT ![c] = [wrote |-> 0, closed |-> FALSE, here |-> TRUE]]
            /\ ~In(clients, c)
        BY <2>1 DEF Neg!Connect, In, Neg!Contains
      <3>2. [wrote |-> 0, closed |-> FALSE, here |-> TRUE] \in Peer
        BY DEF Peer
      <3>3. \A d \in Clients : peer[d].wrote \in Nat
        BY <1>1 DEF Peer
      <3>4. \A d \in Clients : d # c => peer'[d] = peer[d]
        BY <1>1, <3>1
      <3> QED BY <1>1, <3>1, <3>2, <3>3, <3>4
    <2>2. CASE Neg!Write(c)
      <3>1. peer' = [peer EXCEPT ![c] = [peer[c] EXCEPT !.wrote = peer[c].wrote + 1]]
        BY <2>2 DEF Neg!Write
      <3>2. PICK y : y = [peer[c] EXCEPT !.wrote = peer[c].wrote + 1]
        OBVIOUS
      <3>3. y \in Peer /\ y.wrote = peer[c].wrote + 1
        BY <1>1, <3>2 DEF Peer
      <3>4. \A d \in Clients : peer[d].wrote \in Nat /\ peer'[d] = IF d = c THEN y ELSE peer[d]
        BY <1>1, <3>1, <3>2 DEF Peer
      <3> QED BY <1>1, <3>1, <3>2, <3>3, <3>4
    <2>3. CASE Neg!Close(c)
      <3>1. peer' = [peer EXCEPT ![c] = [peer[c] EXCEPT !.closed = TRUE]]
        BY <2>3 DEF Neg!Close
      <3>2. PICK y : y = [peer[c] EXCEPT !.closed = TRUE]
        OBVIOUS
      <3>3. y \in Peer /\ y.wrote = peer[c].wrote
        BY <1>1, <3>2 DEF Peer
      <3>4. \A d \in Clients : peer[d].wrote \in Nat /\ peer'[d] = IF d = c THEN y ELSE peer[d]
        BY <1>1, <3>1, <3>2 DEF Peer
      <3> QED BY <1>1, <3>1, <3>2, <3>3, <3>4
    <2> QED BY <2>1, <2>2, <2>3
  <1>3. ASSUME NEW d \in Clients, In(clients, d)
        PROVE  /\ Counted(cc[d], peer'[d])
               /\ cc[d].session # None => In(sessions, cc[d].session)
    <2>1. /\ Counted(cc[d], peer[d]) /\ cc[d].read \in Nat /\ peer[d].wrote \in Nat
          /\ cc[d].session # None => In(sessions, cc[d].session)
      BY <1>3 DEF NegInv, Client, Peer
    <2>2. peer'[d].wrote \in Nat /\ peer'[d].wrote >= peer[d].wrote
      BY <1>2, <1>3 DEF Peer
    <2> QED BY <2>1, <2>2 DEF Counted
  <1> QED BY <1>1, <1>2, <1>3 DEF NegInv

LEMMA IdleWalk ==
    ASSUME walk = Neg!Quiet PROVE walk.cc = None /\ walk.cc1 = None
  BY DEF Neg!Quiet

LEMMA DelSessionKeeps ==
    ASSUME Neg!NeganConstants, NegInv, NEW s \in Sessions, Neg!DelSession(s)
    PROVE  NegInv'
  <1>1. /\ Neg!FreeClients(Neg!Bound(s)) /\ sessions' = Neg!Unlinked(sessions, {s})
        /\ walk' = walk /\ walk = Neg!Quiet
    BY DEF Neg!DelSession, Neg!Idle
  <1>2. /\ clients' \in Seq(Clients) /\ Once(clients')
        /\ peer' \in [Clients -> Peer] /\ cc' \in [Clients -> Client]
        /\ \A c : In(clients', c) <=> In(clients, c) /\ c \notin Neg!Bound(s)
        /\ \A c \in Clients : In(clients', c) => cc'[c] = cc[c] /\ peer'[c] = peer[c]
    BY <1>1, FreeKeeps
  <1>3. sessions' \in Seq(Sessions) /\ \A x : In(sessions', x) <=> In(sessions, x) /\ x # s
    <2>1. sessions \in Seq(Sessions)
      BY DEF NegInv
    <2>2. sessions' \in Seq(Sessions) /\ \A x : In(sessions', x) <=> In(sessions, x) /\ x \notin {s}
      BY <1>1, <2>1, UnlinkedIs
    <2> QED BY <2>2
  <1>4. walk'.cc = None /\ walk'.cc1 = None
    BY <1>1, IdleWalk
  <1>5. ASSUME NEW c \in Clients, In(clients', c)
        PROVE  /\ Counted(cc'[c], peer'[c])
               /\ cc'[c].session # None => In(sessions', cc'[c].session)
    <2>1. /\ In(clients, c) /\ c \notin Neg!Bound(s) /\ cc'[c] = cc[c] /\ peer'[c] = peer[c]
      BY <1>2, <1>5
    <2>2. /\ Counted(cc[c], peer[c])
          /\ cc[c].session # None => In(sessions, cc[c].session)
      BY <2>1 DEF NegInv
    <2>3. cc[c].session # s
      BY <2>1 DEF Neg!Bound, In, Neg!Contains
    <2> QED BY <1>3, <2>1, <2>2, <2>3
  <1> QED BY <1>2, <1>3, <1>4, <1>5 DEF NegInv

LEMMA DestroyAllKeeps ==
    ASSUME Neg!NeganConstants, NegInv, Neg!Destroy
    PROVE  NegInv'
  <1>1. /\ Neg!FreeClients(Neg!ToSet(clients)) /\ sessions' = <<>>
        /\ walk' = walk /\ walk = Neg!Quiet
    BY DEF Neg!Destroy, Neg!Idle
  <1>2. /\ clients' \in Seq(Clients) /\ Once(clients')
        /\ peer' \in [Clients -> Peer] /\ cc' \in [Clients -> Client]
        /\ \A c : In(clients', c) <=> In(clients, c) /\ c \notin Neg!ToSet(clients)
    BY <1>1, FreeKeeps
  <1>3. \A c : ~In(clients', c)
    <2>1. clients \in Seq(Clients)
      BY DEF NegInv
    <2>2. \A c : In(clients, c) => c \in Neg!ToSet(clients)
      BY <2>1 DEF In, Neg!ToSet
    <2> QED BY <1>2, <2>2
  <1>4. walk'.cc = None /\ walk'.cc1 = None
    BY <1>1, IdleWalk
  <1>5. sessions' \in Seq(Sessions)
    BY <1>1
  <1> QED BY <1>2, <1>3, <1>4, <1>5 DEF NegInv

LEMMA NewSessionKeeps ==
    ASSUME Neg!NeganConstants, NegInv, NEW s \in Sessions, NEW ok \in BOOLEAN,
           Neg!NewSession(s, ok)
    PROVE  NegInv'
  <1>1. /\ clients' = clients /\ peer' = peer /\ cc' = cc /\ walk' = walk
        /\ sessions' = sessions \/ sessions' = Append(sessions, s)
        /\ sessions \in Seq(Sessions)
    BY DEF Neg!NewSession, Neg!AllocSession, NegInv
  <1>2. sessions' \in Seq(Sessions) /\ \A x : In(sessions, x) => In(sessions', x)
    <2>1. CASE sessions' = Append(sessions, s)
      <3>1. /\ sessions' \in Seq(Sessions) /\ Len(sessions) \in Nat
            /\ Len(sessions') = Len(sessions) + 1 /\ sessions'[Len(sessions')] = s
            /\ \A i \in 1..Len(sessions) : sessions'[i] = sessions[i]
        BY <1>1, <2>1
      <3>2. \A x : In(sessions', x) <=> In(sessions, x) \/ x = s
        BY <3>1, LongerIs
      <3> QED BY <3>1, <3>2
    <2> QED BY <1>1, <2>1
  <1> QED BY <1>1, <1>2 DEF NegInv

LEMMA AcceptKeeps ==
    ASSUME Neg!NeganConstants, NegInv, NEW c \in Clients, Neg!Accept(c)
    PROVE  NegInv'
  <1>1. /\ clients' = Append(clients, c) /\ ~In(clients, c)
        /\ cc' = [cc EXCEPT ![c] = Neg!NewClient]
        /\ sessions' = sessions /\ peer' = peer
        /\ walk'.cc1 = None /\ walk'.cc = Neg!GetNext(clients', None)
    BY DEF Neg!Accept, Neg!Pending, In, Neg!Contains
  <1>2. clients \in Seq(Clients) /\ Once(clients) /\ cc \in [Clients -> Client]
        /\ sessions \in Seq(Sessions) /\ peer \in [Clients -> Peer]
    BY DEF NegInv
  <1>3. /\ clients' \in Seq(Clients) /\ Once(clients')
        /\ \A d : In(clients', d) <=> In(clients, d) \/ d = c
    <2>1. clients \in Seq(Clients) /\ c \in Clients /\ clients' = Append(clients, c)
      BY <1>1, <1>2
    <2>2. clients' \in Seq(Clients) /\ \A y : In(clients', y) <=> In(clients, y) \/ y = c
      <3>1. /\ clients' \in Seq(Clients) /\ Len(clients) \in Nat
            /\ Len(clients') = Len(clients) + 1 /\ clients'[Len(clients')] = c
            /\ \A i \in 1..Len(clients) : clients'[i] = clients[i]
        BY <2>1
      <3>2. \A y : In(clients', y) <=> In(clients, y) \/ y = c
        BY <3>1, LongerIs
      <3> QED BY <3>1, <3>2
    <2>3. Once(clients')
      BY <1>1, <1>2, <2>1, AppendOnce
    <2> QED BY <2>2, <2>3
  <1>4. walk'.cc # None => In(clients', walk'.cc)
    <2>1. None \notin Clients
      BY DEF Neg!NeganConstants
    <2> QED BY <1>1, <1>3, <2>1, NextIs
  <1>5. cc' \in [Clients -> Client] /\ \A d \in Clients : cc'[d] = IF d = c THEN Neg!NewClient ELSE cc[d]
    <2>1. Neg!NewClient \in Client
      BY DEF Neg!NewClient, Client
    <2> QED BY <1>1, <1>2, <2>1
  <1>6. ASSUME NEW d \in Clients, In(clients', d)
        PROVE  /\ Counted(cc'[d], peer[d])
               /\ cc'[d].session # None => In(sessions, cc'[d].session)
    <2>1. CASE d = c
      <3>1. MsgLen \in Nat /\ BufMax \in Nat /\ peer[d].wrote \in Nat
        BY <1>2 DEF Neg!NeganConstants, Peer
      <3>2. /\ cc'[d].read = 0 /\ cc'[d].reqlen = 0 /\ cc'[d].handled = 0
            /\ cc'[d].session = None
        BY <1>5, <2>1 DEF Neg!NewClient
      <3> QED BY <3>1, <3>2 DEF Counted
    <2>2. CASE d # c
      <3>1. In(clients, d) /\ cc'[d] = cc[d]
        BY <1>3, <1>5, <1>6, <2>2
      <3> QED BY <3>1 DEF NegInv
    <2> QED BY <2>1, <2>2
  <1> QED BY <1>1, <1>2, <1>3, <1>4, <1>5, <1>6 DEF NegInv

\* A pass begins or goes on and nothing but its pointers changes.
LEMMA WalkKeeps ==
    ASSUME Neg!NeganConstants, NegInv, Neg!NoAccept \/ Neg!Visit \/ Neg!Skip
    PROVE  NegInv'
  <1>1. sessions' = sessions /\ clients' = clients /\ peer' = peer /\ cc' = cc
    BY DEF Neg!NoAccept, Neg!Visit, Neg!Skip
  <1>2. /\ walk'.cc # None => In(clients, walk'.cc)
        /\ walk'.cc1 # None =>
              In(clients, walk'.cc1) /\ walk'.cc = Neg!GetNext(clients, walk'.cc1)
    <2>0. clients \in Seq(Clients) /\ Once(clients) /\ None \notin Clients
      BY DEF NegInv, Neg!NeganConstants
    <2>1. CASE Neg!NoAccept
      <3>1. walk'.cc1 = None /\ walk'.cc = Neg!GetNext(clients, None)
        BY <2>1 DEF Neg!NoAccept
      <3> QED BY <2>0, <3>1, NextIs
    <2>2. CASE Neg!Visit
      <3>1. walk'.cc1 = walk.cc /\ walk'.cc = Neg!GetNext(clients, walk.cc) /\ walk.cc # None
        BY <2>2 DEF Neg!Visit
      <3>2. In(clients, walk.cc)
        BY <3>1 DEF NegInv
      <3> QED BY <2>0, <3>1, <3>2, NextIs
    <2>3. CASE Neg!Skip
      <3>1. walk' = Neg!Leave(walk)
        BY <2>3 DEF Neg!Skip
      <3>2. walk'.cc1 = None /\ (walk'.cc = None \/ walk'.cc = walk.cc)
        BY <3>1 DEF Neg!Leave, Neg!Quiet
      <3> QED BY <3>2 DEF NegInv
    <2> QED BY <2>1, <2>2, <2>3
  <1> QED BY <1>1, <1>2 DEF NegInv

LEMMA RecvClosedKeeps ==
    ASSUME Neg!NeganConstants, NegInv, Neg!RecvClosed
    PROVE  NegInv'
  <1>1. /\ Neg!FreeClients({walk.cc1}) /\ sessions' = sessions
        /\ walk' = Neg!Leave(walk) /\ walk.cc1 # None
    BY DEF Neg!RecvClosed, Neg!Reading
  <1>2. /\ clients' \in Seq(Clients) /\ Once(clients')
        /\ peer' \in [Clients -> Peer] /\ cc' \in [Clients -> Client]
        /\ \A c : In(clients', c) <=> In(clients, c) /\ c \notin {walk.cc1}
        /\ \A c \in Clients : In(clients', c) => cc'[c] = cc[c] /\ peer'[c] = peer[c]
    BY <1>1, FreeKeeps
  <1>3. walk'.cc1 = None /\ (walk'.cc = None \/ walk'.cc = walk.cc)
    BY <1>1 DEF Neg!Leave, Neg!Quiet
  <1>4. walk.cc # None => In(clients, walk.cc) /\ walk.cc # walk.cc1
    <2>1. clients \in Seq(Clients) /\ Once(clients) /\ None \notin Clients
          /\ In(clients, walk.cc1) /\ walk.cc = Neg!GetNext(clients, walk.cc1)
      BY <1>1 DEF NegInv, Neg!NeganConstants
    <2> QED BY <2>1, NextIs
  <1>5. walk'.cc # None => In(clients', walk'.cc)
    BY <1>2, <1>3, <1>4
  <1>6. ASSUME NEW c \in Clients, In(clients', c)
        PROVE  /\ Counted(cc'[c], peer'[c])
               /\ cc'[c].session # None => In(sessions, cc'[c].session)
    BY <1>2, <1>6 DEF NegInv
  <1>7. sessions \in Seq(Sessions)
    BY DEF NegInv
  <1> QED BY <1>1, <1>2, <1>3, <1>5, <1>6, <1>7 DEF NegInv

\* What recv takes fits in the buffer and was written.
LEMMA TakenIs ==
    ASSUME Neg!NeganConstants, NEW c \in Clients, cc[c] \in Client, peer[c] \in Peer,
           Counted(cc[c], peer[c])
    PROVE  /\ Neg!Taken(c) \in Nat
           /\ cc[c].reqlen + Neg!Taken(c) <= BufMax
           /\ cc[c].read + Neg!Taken(c) <= peer[c].wrote
           /\ cc[c].read \in Nat /\ cc[c].reqlen \in Nat /\ cc[c].handled \in Nat
           /\ peer[c].wrote \in Nat
           /\ cc[c].read = MsgLen * cc[c].handled + cc[c].reqlen
  <1>1. /\ cc[c].read \in Nat /\ cc[c].reqlen \in Nat /\ cc[c].handled \in Nat
        /\ peer[c].wrote \in Nat /\ BufMax \in Nat
    BY DEF Client, Peer, Neg!NeganConstants
  <1>2. cc[c].reqlen <= BufMax /\ cc[c].read <= peer[c].wrote
        /\ cc[c].read = MsgLen * cc[c].handled + cc[c].reqlen
    BY DEF Counted
  <1> QED BY <1>1, <1>2 DEF Neg!Taken, Neg!Unread

\* One client read: its bytes are counted, and its session is listed.
LEMMA ReadKeeps ==
    ASSUME Neg!NeganConstants, NegInv, NEW c \in Clients, In(clients, c),
           NEW x \in Client, Counted(x, peer[c]),
           x.session # None => In(sessions, x.session),
           cc' = [cc EXCEPT ![c] = x],
           sessions' = sessions, clients' = clients, peer' = peer,
           walk' = walk \/ walk' = Neg!Leave(walk)
    PROVE  NegInv'
  <1>1. cc \in [Clients -> Client]
    BY DEF NegInv
  <1>2. cc' \in [Clients -> Client] /\ \A d \in Clients : cc'[d] = IF d = c THEN x ELSE cc[d]
    BY <1>1
  <1>3. \A d \in Clients : In(clients, d) =>
            /\ Counted(cc'[d], peer[d])
            /\ cc'[d].session # None => In(sessions, cc'[d].session)
    BY <1>2 DEF NegInv
  <1>4. /\ walk'.cc # None => In(clients, walk'.cc)
        /\ walk'.cc1 # None =>
              In(clients, walk'.cc1) /\ walk'.cc = Neg!GetNext(clients, walk'.cc1)
    <2>1. CASE walk' = walk
      BY <2>1 DEF NegInv
    <2>2. CASE walk' = Neg!Leave(walk)
      <3>1. walk'.cc1 = None /\ (walk'.cc = None \/ walk'.cc = walk.cc)
        BY <2>2 DEF Neg!Leave, Neg!Quiet
      <3> QED BY <3>1 DEF NegInv
    <2> QED BY <2>1, <2>2
  <1> QED BY <1>2, <1>3, <1>4 DEF NegInv

LEMMA ReadingIs ==
    ASSUME NegInv, Neg!Reading, Neg!NeganConstants
    PROVE  /\ walk.cc1 \in Clients /\ In(clients, walk.cc1)
           /\ cc[walk.cc1] \in Client /\ peer[walk.cc1] \in Peer
           /\ Counted(cc[walk.cc1], peer[walk.cc1])
           /\ cc[walk.cc1].session # None => In(sessions, cc[walk.cc1].session)
  <1>1. In(clients, walk.cc1) /\ clients \in Seq(Clients)
    BY DEF NegInv, Neg!Reading
  <1>2. walk.cc1 \in Clients
    BY <1>1 DEF In
  <1> QED BY <1>1, <1>2 DEF NegInv

LEMMA RecvNothingKeeps ==
    ASSUME Neg!NeganConstants, NegInv, Neg!RecvNothing
    PROVE  NegInv'
  <1>1. PICK c : c = walk.cc1
    OBVIOUS
  <1>2. /\ c \in Clients /\ In(clients, c) /\ cc[c] \in Client /\ peer[c] \in Peer
        /\ Counted(cc[c], peer[c])
        /\ cc[c].session # None => In(sessions, cc[c].session)
    BY <1>1, ReadingIs DEF Neg!RecvNothing
  <1>3. PICK n : n = Neg!Taken(c)
    OBVIOUS
  <1>4. PICK x : x = [cc[c] EXCEPT !.read = cc[c].read + n, !.reqlen = cc[c].reqlen + n]
    OBVIOUS
  <1>5. /\ cc' = [cc EXCEPT ![c].read = @ + n, ![c].reqlen = @ + n]
        /\ sessions' = sessions /\ clients' = clients /\ peer' = peer
        /\ walk' = Neg!Leave(walk) /\ cc \in [Clients -> Client]
    BY <1>1, <1>3 DEF Neg!RecvNothing, NegInv
  <1>6. cc' = [cc EXCEPT ![c] = x]
    BY <1>2, <1>4, <1>5 DEF Client
  <1>7. /\ n \in Nat /\ cc[c].reqlen + n <= BufMax /\ cc[c].read + n <= peer[c].wrote
        /\ cc[c].read \in Nat /\ cc[c].reqlen \in Nat /\ cc[c].handled \in Nat
        /\ cc[c].read = MsgLen * cc[c].handled + cc[c].reqlen
    BY <1>2, <1>3, TakenIs
  <1>8. x \in Client /\ x.read = cc[c].read + n /\ x.reqlen = cc[c].reqlen + n
        /\ x.handled = cc[c].handled /\ x.session = cc[c].session
    <2>1. PICK y \in Client : y = cc[c]
      BY <1>2
    <2>2. y.read + n \in Nat /\ y.reqlen + n \in Nat
      BY <1>7, <2>1
    <2>3. x = [y EXCEPT !.read = y.read + n, !.reqlen = y.reqlen + n]
      BY <1>4, <2>1
    <2>4. x \in Client /\ x.read = y.read + n /\ x.reqlen = y.reqlen + n
          /\ x.handled = y.handled /\ x.session = y.session
      BY <2>2, <2>3 DEF Client
    <2> QED BY <2>1, <2>4
  <1>9. PICK k \in Int : k = MsgLen * cc[c].handled
    BY <1>7 DEF Neg!NeganConstants
  <1>10. Counted(x, peer[c])
    BY <1>7, <1>8, <1>9 DEF Counted
  <1> QED BY <1>2, <1>5, <1>6, <1>8, <1>10, ReadKeeps

LEMMA RecvMsgKeeps ==
    ASSUME Neg!NeganConstants, NegInv, NEW s \in Sessions \cup {None}, Neg!RecvMsg(s)
    PROVE  NegInv'
  <1>1. PICK c : c = walk.cc1
    OBVIOUS
  <1>2. /\ c \in Clients /\ In(clients, c) /\ cc[c] \in Client /\ peer[c] \in Peer
        /\ Counted(cc[c], peer[c])
        /\ cc[c].session # None => In(sessions, cc[c].session)
    BY <1>1, ReadingIs DEF Neg!RecvMsg
  <1>3. PICK n : n = Neg!Taken(c)
    OBVIOUS
  <1>4. PICK x : x = [cc[c] EXCEPT !.read = cc[c].read + n,
                                   !.reqlen = cc[c].reqlen + n - MsgLen,
                                   !.handled = cc[c].handled + 1, !.playing = s # None,
                                   !.session = IF cc[c].session = None THEN s ELSE cc[c].session]
    OBVIOUS
  <1>5. /\ cc' = [cc EXCEPT ![c].read = @ + n, ![c].reqlen = @ + n - MsgLen,
                            ![c].handled = @ + 1, ![c].playing = s # None,
                            ![c].session = IF @ = None THEN s ELSE @]
        /\ sessions' = sessions /\ clients' = clients /\ peer' = peer
        /\ walk' = walk /\ cc \in [Clients -> Client]
        /\ cc[c].reqlen + n >= MsgLen /\ (s # None => In(sessions, s))
    BY <1>1, <1>3 DEF Neg!RecvMsg, NegInv, In, Neg!Contains
  <1>6. cc' = [cc EXCEPT ![c] = x]
    BY <1>2, <1>4, <1>5 DEF Client
  <1>7. /\ n \in Nat /\ cc[c].reqlen + n <= BufMax /\ cc[c].read + n <= peer[c].wrote
        /\ cc[c].read \in Nat /\ cc[c].reqlen \in Nat /\ cc[c].handled \in Nat
        /\ cc[c].read = MsgLen * cc[c].handled + cc[c].reqlen
    BY <1>2, <1>3, TakenIs
  <1>8. /\ x \in Client /\ x.read = cc[c].read + n /\ x.reqlen = cc[c].reqlen + n - MsgLen
        /\ x.handled = cc[c].handled + 1
        /\ x.session = IF cc[c].session = None THEN s ELSE cc[c].session
    BY <1>2, <1>4, <1>5, <1>7 DEF Client, Neg!NeganConstants
  <1>9. /\ MsgLen \in Nat /\ MsgLen * (cc[c].handled + 1) = MsgLen * cc[c].handled + MsgLen
        /\ BufMax \in Nat /\ MsgLen * cc[c].handled \in Int
    BY <1>7 DEF Neg!NeganConstants
  <1>10. Counted(x, peer[c])
    <2>1. PICK k \in Int : k = MsgLen * cc[c].handled
      BY <1>9
    <2>2. MsgLen * x.handled = k + MsgLen
      BY <1>8, <1>9, <2>1
    <2>3. x.read = (k + MsgLen) + x.reqlen /\ x.reqlen <= BufMax /\ x.read <= peer[c].wrote
      BY <1>7, <1>8, <1>9, <2>1
    <2> QED BY <2>2, <2>3 DEF Counted
  <1>11. x.session # None => In(sessions, x.session)
    BY <1>2, <1>5, <1>8
  <1> QED BY <1>2, <1>5, <1>6, <1>8, <1>10, <1>11, ReadKeeps

LEMMA NegStep == ASSUME Neg!NeganConstants, NegInv, [Neg!Next]_Neg!vars PROVE NegInv'
  <1>1. ASSUME sessions' = sessions, clients' = clients, peer' = peer, cc' = cc, walk' = walk
        PROVE  NegInv'
    BY <1>1 DEF NegInv
  <1>2. ASSUME NEW c \in Clients, Neg!AcceptRefused(c) PROVE NegInv'
    BY <1>1, <1>2 DEF Neg!AcceptRefused
  <1>3. CASE UNCHANGED Neg!vars
    BY <1>1, <1>3 DEF Neg!vars
  <1>4. ASSUME NEW c \in Clients, Neg!Connect(c) \/ Neg!Write(c) \/ Neg!Close(c) \/ Neg!Accept(c)
        PROVE  NegInv'
    BY <1>4, PeersKeep, AcceptKeeps
  <1>5. ASSUME NEW s \in Sessions, NEW ok \in BOOLEAN, Neg!DelSession(s) \/ Neg!NewSession(s, ok)
        PROVE  NegInv'
    BY <1>5, DelSessionKeeps, NewSessionKeeps
  <1>6. CASE Neg!NoAccept \/ Neg!Visit \/ Neg!Skip
    BY <1>6, WalkKeeps
  <1>7. CASE Neg!RecvClosed \/ Neg!RecvNothing \/ Neg!Destroy
    BY <1>7, RecvClosedKeeps, RecvNothingKeeps, DestroyAllKeeps
  <1> QED BY <1>2, <1>3, <1>4, <1>5, <1>6, <1>7, RecvMsgKeeps DEF Neg!Next

\* It needs no fairness.
LEMMA PassAlways ==
    ASSUME Neg!NeganConstants
    PROVE  Neg!Init /\ [][Neg!Next]_Neg!vars
               => [](Neg!WalkInOrder /\ Neg!BoundToLive /\ Neg!BytesKept)
  <1>1. Neg!Init => NegInv
    BY InitNegInv
  <1>2. NegInv /\ [Neg!Next]_Neg!vars => NegInv'
    BY NegStep
  <1>3. NegInv => Neg!WalkInOrder /\ Neg!BoundToLive /\ Neg!BytesKept
    <2> SUFFICES ASSUME NegInv PROVE Neg!WalkInOrder /\ Neg!BoundToLive /\ Neg!BytesKept
      OBVIOUS
    <2>1. clients \in Seq(Clients)
      BY DEF NegInv
    <2>2. \A c \in Neg!ToSet(clients) : c \in Clients /\ In(clients, c)
      BY <2>1 DEF Neg!ToSet, In
    <2>3. Neg!WalkInOrder
      BY DEF NegInv, Neg!WalkInOrder, In, Neg!Contains
    <2>4. Neg!BoundToLive
      BY <2>2 DEF NegInv, Neg!BoundToLive, In, Neg!Contains
    <2>5. Neg!BytesKept
      BY <2>2 DEF NegInv, Neg!BytesKept, Counted
    <2> QED BY <2>3, <2>4, <2>5
  <1> QED BY <1>1, <1>2, <1>3, PTL

(***************************************************************************)
(* A pass of NEG_doEvent goes on with the client behind the one it served, *)
(* also when it freed that one, a bound client's session is listed, and    *)
(* every byte that was read is in one handled message or in the buffer,    *)
(* which it fits (negan.c, negan_adapt.c); for any number of clients and   *)
(* sessions, and messages and buffers of any length.                       *)
(***************************************************************************)
THEOREM PassServesAll ==
    ASSUME Neg!NeganConstants
    PROVE  Neg!Spec => [](Neg!WalkInOrder /\ Neg!BoundToLive /\ Neg!BytesKept)
  BY PassAlways, PTL DEF Neg!Spec

----------------------------------------------------------------------------
(***************************************************************************)
(* The streams of a device.  No frame after a stop, for every set of       *)
(* channels, every driver and both values of audio:lookup.  A thread must  *)
(* be gone when its stream is freed or its port told; what makes it so is  *)
(* spread over three records: the channel (may Stop wait for the thread?), *)
(* the stream (is m_bQuit seen only by a thread that somebody joins?) and  *)
(* the call (which streams will a refresh start again?).  The inductive    *)
(* invariant says how they agree.                                          *)
(***************************************************************************)

Channel == [type : BOOLEAN, dir : BOOLEAN, vp : {None, "live", "failed", "freed"}]
Stream == [alive : BOOLEAN, quit : BOOLEAN,
           thread : {"none", "new", "run", "frame", "exited"},
           on : SUBSET {"ai", "ao", "vpss", "venc", "bound"}]
Call == [op : {"none", "stop", "destroy", "frozen", "refresh"}, c : Chans \cup {0},
         at : {"", "look", "stop", "join", "stopped", "init"}, again : SUBSET Chans]

TypeOK ==
    /\ ch \in [Chans -> Channel]
    /\ st \in [Chans -> Stream]
    /\ port \in [Chans -> {"none", "created", "started", "cancelled",
                           "stopped", "destroyed"}]
    /\ call \in Call

\* The port was told of a start and of no end of it.
Told(c) == port[c] \in {"started", "cancelled"}

\* Where the call in progress is.
CallInv ==
    /\ call.at # "" => call.c \in Chans
    /\ call.at = "look" => call.op \in {"refresh", "frozen"}
    /\ call.at = "init" => call.op = "refresh"
    /\ call.at = "stopped" => ~Str!Runs(call.c)
    /\ call.at \in {"join", "stopped"} /\ (ch[call.c].type \/ Driver = "null")
        => st[call.c].quit
    /\ call.op \notin {"refresh", "frozen"} => call.again = {}

\* m_vpStream of a typed channel is the stream that was not freed; a thread
\* runs where Stop would wait for it, and has not missed m_bQuit unless a
\* call waits for it; an m_bQuit that is FALSE means a port that was told,
\* except for a null stream that was never started.
ChanInv(c) ==
    /\ ch[c].vp = "live" => st[c].alive
    /\ st[c].alive /\ ch[c].type => ch[c].vp = "live"
    /\ Str!Runs(c) => st[c].alive /\ Told(c) /\ Str!HasThread(c)
    /\ Str!Runs(c) /\ st[c].quit => call.at = "join" /\ call.c = c
    /\ st[c].alive /\ ch[c].type /\ ~st[c].quit /\ ~Told(c)
        => Driver = "null" /\ st[c].thread = "none"

\* What a refresh will start again was started before, and is stopped by now.
AgainInv(c) ==
    c \in call.again /\ call.op = "refresh" =>
        /\ st[c].alive
        /\ Told(c) \/ /\ Driver = "null" /\ st[c].thread = "none"
                      /\ ub # None \/ (call.at = "stop" /\ call.c = c /\ ~st[c].quit)
        /\ Str!Runs(c) => call.at \in {"stop", "join"} /\ call.c = c

\* A thread that begins finds its units off, but for the input that was left on.
Left(c) == Lookup /\ c = 1 /\ st[c].on = {"ai"}
OnInv(c) ==
    /\ st[c].on \subseteq IF Driver = "hivideo" THEN Str!Venc ELSE Str!Units(c)
    /\ st[c].thread = "new" => st[c].on \cap {"ai", "ao"} = {} \/ Left(c)
    /\ st[c].on \cap {"ai", "ao"} # {} => Str!Runs(c) \/ Left(c)

StopInv == TypeOK /\ CallInv /\ \A c \in Chans : ChanInv(c) /\ AgainInv(c) /\ OnInv(c)

----------------------------------------------------------------------------
LEMMA InitStop == ASSUME Str!AmioConstants, Str!Init PROVE StopInv
  <1>1. TypeOK
    BY DEF Str!Init, Str!AmioConstants, TypeOK, Str!NoCall, Str!NoStream, Channel, Stream, Call
  <1>2. CallInv
    BY DEF Str!Init, CallInv, Str!NoCall
  <1>3. ASSUME NEW c \in Chans PROVE ChanInv(c) /\ AgainInv(c) /\ OnInv(c)
    BY <1>3 DEF Str!Init, Str!AmioConstants, ChanInv, AgainInv, OnInv, Str!NoCall, Str!NoStream, Str!Runs
  <1> QED BY <1>1, <1>2, <1>3 DEF StopInv

\* What a step of a stream's thread leaves alone.
LEMMA ThreadFrame ==
    ASSUME TypeOK, NEW d \in Chans, Str!ThreadNext(d)
    PROVE  /\ UNCHANGED <<ch, port, call, ub>> /\ ub = None
           /\ st' \in [Chans -> Stream]
           /\ \A c \in Chans \ {d} : st'[c] = st[c]
           /\ st'[d].alive = st[d].alive /\ st'[d].quit = st[d].quit
           /\ Str!Runs(d) /\ st'[d].thread \notin {"none", "new"}
  <1> USE DEF TypeOK
  <1>1. CASE \E got \in SUBSET Str!Units(d) : Str!ThreadBegins(d, got)
    <2> PICK got \in SUBSET Str!Units(d) : Str!ThreadBegins(d, got) BY <1>1
    <2>1. PICK o \in SUBSET {"ai", "ao", "vpss", "venc", "bound"}, th \in {"run", "exited"} :
             st' = [st EXCEPT ![d].on = o, ![d].thread = th]
      <3>1. st[d].on \cup got \in SUBSET {"ai", "ao", "vpss", "venc", "bound"}
        BY DEF Stream, Str!Units
      <3> QED BY <3>1 DEF Str!ThreadBegins
    <2>2. st'[d] \in Stream /\ st'[d].thread = th
      BY ZenonT(60), <2>1 DEF Stream
    <2>3. st' \in [Chans -> Stream]
      BY <2>1, <2>2
    <2> QED BY <2>1, <2>2, <2>3 DEF Str!ThreadBegins, Str!Runs, Stream
  <1>2. CASE Str!Frame(d) \/ Str!FrameEnds(d)
    <2>1. PICK th \in {"run", "frame"} : st' = [st EXCEPT ![d].thread = th]
      BY <1>2 DEF Str!Frame, Str!FrameEnds
    <2>2. st' \in [Chans -> Stream] /\ st'[d].thread = th
      BY <2>1 DEF Stream
    <2> QED BY <1>2, <2>1, <2>2 DEF Str!Frame, Str!FrameEnds, Str!Runs, Stream
  <1>3. CASE Str!ThreadEnds(d)
    <2>1. PICK o \in SUBSET {"ai", "ao", "vpss", "venc", "bound"} :
             st' = [st EXCEPT ![d].thread = "exited", ![d].on = o]
      BY <1>3 DEF Str!ThreadEnds, Stream
    <2>2. st'[d] \in Stream /\ st'[d].thread = "exited"
      BY ZenonT(60), <2>1 DEF Stream
    <2>3. st' \in [Chans -> Stream]
      BY <2>1, <2>2
    <2> QED BY <1>3, <2>1, <2>2, <2>3 DEF Str!ThreadEnds, Str!Runs, Stream
  <1> QED BY <1>1, <1>2, <1>3 DEF Str!ThreadNext

\* What it does to the units that are on.
LEMMA ThreadUnits ==
    ASSUME TypeOK, NEW d \in Chans, Str!ThreadNext(d)
    PROVE  \/ /\ st[d].thread = "new"
              /\ \E got \in SUBSET Str!Units(d) :
                    /\ "ao" \in got /\ d = 1 => "ai" \in got
                    /\ st'[d].on = st[d].on \cup got
                    /\ st'[d].thread = IF got = Str!Units(d) THEN "run" ELSE "exited"
           \/ st'[d].thread \in {"run", "frame"} /\ st'[d].on = st[d].on
           \/ st'[d].on = st[d].on \ Str!Units(d)
  <1> USE DEF TypeOK, Stream
  <1>1. CASE \E got \in SUBSET Str!Units(d) : Str!ThreadBegins(d, got)
    BY <1>1 DEF Str!ThreadBegins
  <1>2. CASE Str!Frame(d) \/ Str!FrameEnds(d)
    BY <1>2 DEF Str!Frame, Str!FrameEnds
  <1>3. CASE Str!ThreadEnds(d)
    BY <1>3 DEF Str!ThreadEnds
  <1> QED BY <1>1, <1>2, <1>3 DEF Str!ThreadNext

LEMMA ThreadStop ==
    ASSUME Str!AmioConstants, StopInv, NEW d \in Chans, Str!ThreadNext(d)
    PROVE  StopInv'
  <1> USE DEF Str!AmioConstants, StopInv
  <1>a. /\ UNCHANGED <<ch, port, call, ub>> /\ ub = None
        /\ st' \in [Chans -> Stream]
        /\ \A c \in Chans \ {d} : st'[c] = st[c]
        /\ st'[d].alive = st[d].alive /\ st'[d].quit = st[d].quit
        /\ Str!Runs(d) /\ st'[d].thread \notin {"none", "new"}
    BY ThreadFrame
  <1>1. TypeOK'
    BY <1>a DEF TypeOK
  <1>2. CallInv'
    BY <1>a DEF CallInv, Str!Runs, TypeOK
  <1>3. ASSUME NEW c \in Chans PROVE ChanInv(c)' /\ AgainInv(c)'
    BY ZenonT(60), <1>a DEF ChanInv, AgainInv, Str!Runs, Str!HasThread, Told, TypeOK
  <1>4. ASSUME NEW c \in Chans PROVE OnInv(c)'
    <2>1. CASE c # d
      BY ZenonT(60), <2>1, <1>a DEF OnInv, Str!Runs, Str!Units, Left, TypeOK
    <2>2. CASE c = d
      <3>1. Str!Venc \cap Str!Units(d) = {} /\ Str!Units(d) \subseteq {"ai", "ao"} /\ Str!Venc \cap {"ai", "ao"} = {}
        BY DEF Str!Venc, Str!Units
      <3>2. Driver = "hivideo" => Str!Units(d) = {}
        BY DEF Str!Units
      <3>3. CASE st'[d].thread \in {"run", "frame"} /\ st'[d].on = st[d].on
        BY <2>2, <3>3, <1>a DEF OnInv, Str!Runs, Str!Units, Left
      <3>4. CASE st'[d].on = st[d].on \ Str!Units(d)
        BY <2>2, <3>1, <3>2, <3>4, <1>a DEF OnInv, Str!Runs, Left
      <3>5. ASSUME st[d].thread = "new", NEW got \in SUBSET Str!Units(d),
                   "ao" \in got /\ d = 1 => "ai" \in got,
                   st'[d].on = st[d].on \cup got,
                   st'[d].thread = IF got = Str!Units(d) THEN "run" ELSE "exited"
            PROVE  OnInv(d)'
        <4>1. st'[d].on \subseteq IF Driver = "hivideo" THEN Str!Venc ELSE Str!Units(d)
          BY <3>5, <3>2 DEF OnInv
        <4>2. CASE got = Str!Units(d)
          BY <4>1, <4>2, <3>5 DEF OnInv, Str!Runs, Str!Units
        <4>3. CASE got # Str!Units(d)
          <5>1. st[d].on \cap {"ai", "ao"} = {} \/ Left(d)
            BY <3>5 DEF OnInv
          <5>2. got = {} \/ (Lookup /\ d = 1 /\ got = {"ai"} /\ Str!Units(d) = {"ai", "ao"} /\ Driver # "hivideo")
            BY ZenonT(60), <3>5, <4>3 DEF Str!Units
          <5>3. st'[d].on \cap {"ai", "ao"} = {} \/ Left(d)'
            BY <5>1, <5>2, <4>1, <3>5 DEF Left, OnInv
          <5> QED BY <4>1, <4>3, <5>3, <3>5 DEF OnInv, Str!Units
        <4> QED BY <4>2, <4>3
      <3> QED BY <2>2, <3>3, <3>4, <3>5, ThreadUnits
    <2> QED BY <2>1, <2>2
  <1> QED BY <1>1, <1>2, <1>3, <1>4

----------------------------------------------------------------------------
LEMMA NewStreamFacts ==
    /\ Str!NewStream \in Stream /\ Str!NewStream.alive /\ Str!NewStream.thread = "none"
    /\ Str!NewStream.on = IF Driver = "hivideo" THEN Str!Venc ELSE {}
    /\ ~Str!NewStream.quit => Driver = "null"
  BY DEF Str!NewStream, Stream, Str!Venc

\* Start of a stream: *_stream_start.
LEMMA StartedFacts ==
    ASSUME NEW s \in Stream, NEW ok \in BOOLEAN
    PROVE  /\ Str!Started(s, ok) \in Stream /\ ~Str!Started(s, ok).quit
           /\ Str!Started(s, ok).alive = s.alive /\ Str!Started(s, ok).on = s.on
           /\ Str!Started(s, ok).thread = IF ok THEN "new" ELSE s.thread
  BY DEF Str!Started, Stream

\* Its m_bQuit, and the end of it: *_stream_stop and *_stream_destroy.
LEMMA QuitFacts ==
    ASSUME NEW s \in Stream
    PROVE  LET q == [s EXCEPT !.quit = TRUE] IN
           /\ q \in Stream /\ q.quit
           /\ q.alive = s.alive /\ q.thread = s.thread /\ q.on = s.on
  BY DEF Stream

LEMMA FreedFacts ==
    ASSUME NEW s \in Stream
    PROVE  LET f == [s EXCEPT !.alive = FALSE, !.on = @ \ Str!Venc] IN
           /\ f \in Stream /\ ~f.alive /\ f.on = s.on \ Str!Venc
           /\ f.thread = s.thread /\ f.quit = s.quit
  BY DEF Stream

\* The application's calls begin when no other one is in progress.
LEMMA AppStop ==
    ASSUME Str!AmioConstants, StopInv, Str!AppNext PROVE StopInv'
  <1> USE DEF Str!AmioConstants, StopInv
  <1>a. call = Str!NoCall /\ ub = None /\ ub' = None
    BY DEF Str!AppNext, Str!DefaultInfo, Str!CreateStream, Str!CreateFails, Str!StreamStart, Str!StreamStop,
           Str!StreamDestroy, Str!Begin, Str!DevCall, Str!Held, Str!Idle
  <1>b. call.at = "" /\ call.again = {} /\ call.op = "none"
    BY <1>a DEF Str!NoCall
  <1>1. ASSUME NEW d \in Chans, Str!DefaultInfo(d) PROVE StopInv'
    <2>1. /\ UNCHANGED <<st, port, call>> /\ ch' \in [Chans -> Channel]
          /\ \A c \in Chans : ch'[c].type = ch[c].type /\ ch'[c].vp = ch[c].vp
          /\ \A c \in Chans : ch[c].dir => ch'[c].dir
      BY ZenonT(60), <1>1 DEF Str!DefaultInfo, TypeOK, Channel
    <2>2. TypeOK' BY <2>1 DEF TypeOK
    <2>3. CallInv' BY <2>1 DEF CallInv, Str!Runs
    <2>4. ASSUME NEW c \in Chans PROVE ChanInv(c)' /\ AgainInv(c)' /\ OnInv(c)'
      BY ZenonT(60), <2>1, <1>b DEF ChanInv, AgainInv, OnInv, Str!Runs, Str!HasThread, Told, Str!Units, Left
    <2> QED BY <2>2, <2>3, <2>4
  <1>2. ASSUME NEW d \in Chans, Str!CreateStream(d) \/ Str!CreateFails(d) PROVE StopInv'
    <2>1. PICK v \in {"live", "failed"} : ch' = [ch EXCEPT ![d].vp = v]
                       /\ (v = "live" <=> Str!CreateStream(d))
      <3>1. CASE Str!CreateStream(d) BY <3>1 DEF Str!CreateStream
      <3>2. CASE Str!CreateFails(d) /\ ~Str!CreateStream(d) BY <3>2 DEF Str!CreateFails
      <3> QED BY <1>2, <3>1, <3>2
    <2>2. /\ ch' \in [Chans -> Channel] /\ ch'[d].vp = v /\ ch'[d].type = ch[d].type
          /\ ch'[d].dir = ch[d].dir
          /\ \A c \in Chans \ {d} : ch'[c] = ch[c]
      BY <2>1 DEF TypeOK, Channel
    <2>3. Str!NoStream \in Stream
      BY DEF Str!NoStream, Stream
    <2>4. PICK s \in {Str!NewStream, Str!NoStream} : st' = [st EXCEPT ![d] = s]
                       /\ s = IF v = "live" THEN Str!NewStream ELSE Str!NoStream
      <3>1. CASE v = "live" BY <3>1, <2>1 DEF Str!CreateStream
      <3>2. CASE v # "live" BY <3>2, <2>1, <1>2 DEF Str!CreateFails
      <3> QED BY <3>1, <3>2
    <2>5. /\ st' \in [Chans -> Stream] /\ st'[d] = s
          /\ \A c \in Chans \ {d} : st'[c] = st[c]
      BY <2>3, <2>4, NewStreamFacts DEF TypeOK
    <2>6. /\ \A c \in Chans \ {d} : port'[c] = port[c]
          /\ port' \in [Chans -> {"none", "created", "started", "cancelled",
                                   "stopped", "destroyed"}]
          /\ call' = call
      BY <1>2 DEF Str!CreateStream, Str!CreateFails, TypeOK
    <2>7. /\ s \in Stream /\ s.thread = "none" /\ (s.alive <=> v = "live")
          /\ s.on \subseteq IF Driver = "hivideo" THEN Str!Venc ELSE {}
          /\ s.alive /\ ~s.quit => Driver = "null"
      BY <2>3, <2>4, NewStreamFacts DEF Str!NoStream
    <2>8. TypeOK' BY <2>2, <2>5, <2>6 DEF TypeOK
    <2>9. CallInv' BY <2>6, <1>b DEF CallInv
    <2>10. ASSUME NEW c \in Chans PROVE ChanInv(c)' /\ AgainInv(c)' /\ OnInv(c)'
      <3>1. AgainInv(c)' BY <2>6, <1>b DEF AgainInv
      <3>2. CASE c # d
        <4>1. ChanInv(c)'
          <5>1. st'[c] = st[c] /\ ch'[c] = ch[c] /\ port'[c] = port[c] /\ call' = call
            BY <3>2, <2>2, <2>5, <2>6
          <5>2. Str!HasThread(c)' <=> Str!HasThread(c)
            BY <5>1 DEF Str!HasThread
          <5> QED BY ZenonT(60), <5>1, <5>2 DEF ChanInv, Str!Runs, Told
        <4>2. OnInv(c)'
          BY <3>2, <2>5 DEF OnInv, Str!Runs, Str!Units, Left
        <4> QED BY <3>1, <4>1, <4>2
      <3>3. CASE c = d
        <4>1. ChanInv(d)'
          BY <3>3, <2>2, <2>5, <2>7 DEF ChanInv, Str!Runs
        <4>2. OnInv(d)'
          BY <3>3, <2>5, <2>7 DEF OnInv, Str!Runs, Str!Venc
        <4> QED BY <3>1, <3>3, <4>1, <4>2
      <3> QED BY <3>2, <3>3
    <2> QED BY <2>8, <2>9, <2>10
  <1>3. ASSUME NEW d \in Chans, NEW ok \in BOOLEAN, Str!StreamStart(d, ok) PROVE StopInv'
    <2> PICK h \in BOOLEAN : h = (Str!HasThread(d) /\ ok)
      OBVIOUS
    <2>1. /\ st' = [st EXCEPT ![d] = Str!Started(st[d], h)]
          /\ st[d].alive /\ ~Str!Runs(d) /\ st[d] \in Stream
          /\ UNCHANGED <<ch, call>>
      BY <1>3 DEF Str!StreamStart, Str!Held, Str!Runs, TypeOK
    <2>2. /\ st' \in [Chans -> Stream] /\ \A c \in Chans \ {d} : st'[c] = st[c]
          /\ st'[d].alive /\ ~st'[d].quit /\ st'[d].on = st[d].on
          /\ st'[d].thread = IF h THEN "new" ELSE st[d].thread
      BY <2>1, StartedFacts DEF TypeOK
    <2>3. /\ port'[d] = "started" /\ \A c \in Chans \ {d} : port'[c] = port[c]
          /\ port' \in [Chans -> {"none", "created", "started", "cancelled",
                                   "stopped", "destroyed"}]
      BY <1>3 DEF Str!StreamStart, TypeOK
    <2>4. TypeOK' BY <2>1, <2>2, <2>3 DEF TypeOK
    <2>5. CallInv' BY <2>1, <1>b DEF CallInv
    <2>6. ASSUME NEW c \in Chans PROVE ChanInv(c)' /\ AgainInv(c)' /\ OnInv(c)'
      <3>1. AgainInv(c)' BY <2>1, <1>b DEF AgainInv
      <3>2. CASE c # d
        <4>1. ChanInv(c)'
          BY ZenonT(60), <3>2, <2>1, <2>2, <2>3 DEF ChanInv, Str!Runs, Str!HasThread, Told
        <4>2. OnInv(c)'
          BY ZenonT(60), <3>2, <2>2 DEF OnInv, Str!Runs, Str!Units, Left
        <4> QED BY <3>1, <4>1, <4>2
      <3>3. CASE c = d
        <4>h. Str!Runs(d)' => Str!HasThread(d)'
          BY <2>1, <2>2 DEF Str!Runs, Str!HasThread
        <4>1. ChanInv(d)'
          BY <4>h, <2>1, <2>2, <2>3 DEF ChanInv, Str!Runs, Told
        <4>2. OnInv(d)'
          BY <2>1, <2>2 DEF OnInv, Str!Runs, Str!Units, Left
        <4> QED BY <3>1, <3>3, <4>1, <4>2
      <3> QED BY <3>2, <3>3
    <2> QED BY <2>4, <2>5, <2>6
  <1>4. ASSUME NEW d \in Chans, NEW op \in {"stop", "destroy"}, Str!Begin(op, d) PROVE StopInv'
    <2>1. /\ UNCHANGED <<ch, st>>
          /\ call'.op = op /\ call'.c = d /\ call'.at = "stop" /\ call'.again = {}
          /\ port'[d] = "cancelled" /\ \A c \in Chans \ {d} : port'[c] = port[c]
          /\ port' \in [Chans -> {"none", "created", "started", "cancelled",
                                   "stopped", "destroyed"}]
          /\ call' \in Call
      BY <1>4 DEF Str!Begin, TypeOK, Call
    <2>2. TypeOK' BY <2>1 DEF TypeOK
    <2>3. CallInv' BY <2>1 DEF CallInv
    <2>4. ASSUME NEW c \in Chans PROVE ChanInv(c)' /\ AgainInv(c)' /\ OnInv(c)'
      BY ZenonT(60), <2>1, <1>b DEF ChanInv, AgainInv, OnInv, Str!Runs, Str!HasThread, Told, Str!Units, Left
    <2> QED BY <2>2, <2>3, <2>4
  <1>5. ASSUME NEW op \in {"frozen", "refresh"}, Str!DevCall(op) PROVE StopInv'
    <2>1. /\ UNCHANGED <<ch, st, port>>
          /\ call'.op = op /\ call'.c = 1 /\ call'.at = "look" /\ call'.again = {}
          /\ call' \in Call
      BY <1>5 DEF Str!DevCall, Call
    <2>2. TypeOK' BY <2>1 DEF TypeOK
    <2>3. CallInv' BY <2>1 DEF CallInv
    <2>4. ASSUME NEW c \in Chans PROVE ChanInv(c)' /\ AgainInv(c)' /\ OnInv(c)'
      BY <2>1, <1>b DEF ChanInv, AgainInv, OnInv, Str!Runs, Str!HasThread, Told, Str!Units, Left
    <2> QED BY <2>2, <2>3, <2>4
  <1> QED BY <1>1, <1>2, <1>3, <1>4, <1>5 DEF Str!AppNext, Str!StreamStop, Str!StreamDestroy

----------------------------------------------------------------------------
\* Going on to the next channel.
LEMMA ForwardFacts ==
    ASSUME Str!AmioConstants, TypeOK, call.c \in Chans, call.op \in {"frozen", "refresh"}
    PROVE  /\ Str!Forward \in Call
           /\ Str!Forward.at # "" => Str!Forward.c \in Chans
           /\ Str!Forward.at \in {"", "look", "init"}
           /\ Str!Forward.at = "init" => Str!Forward.op = "refresh"
           /\ \/ Str!Forward.op = call.op /\ Str!Forward.again = call.again
              \/ Str!Forward.op = "none" /\ Str!Forward.again = {} /\ Str!Forward.at = ""
  <1> USE DEF Str!AmioConstants, TypeOK
  <1>1. CASE call.c + 1 \in Chans
    BY <1>1 DEF Str!Forward, Call
  <1>2. CASE call.c + 1 \notin Chans /\ call.op = "refresh"
    BY <1>2 DEF Str!Forward, Call
  <1>3. CASE call.c + 1 \notin Chans /\ call.op = "frozen"
    <2>1. Str!Forward = Str!NoCall BY <1>3 DEF Str!Forward
    <2> QED BY <2>1 DEF Str!NoCall, Call
  <1> QED BY <1>1, <1>2, <1>3

\* m_enType and m_vpStream of a frozen channel.
LEMMA ClearedFacts ==
    ASSUME TypeOK, NEW d \in Chans
    PROVE  /\ Str!Cleared(d) \in [Chans -> Channel]
           /\ \A c \in Chans \ {d} : Str!Cleared(d)[c] = ch[c]
           /\ call.op # "frozen" => Str!Cleared(d) = ch
           /\ call.op = "frozen" => ~Str!Cleared(d)[d].type /\ Str!Cleared(d)[d].vp = None
  <1> USE DEF TypeOK
  <1>1. CASE call.op # "frozen" BY <1>1 DEF Str!Cleared
  <1>2. CASE call.op = "frozen"
    <2>1. Str!Cleared(d) = [ch EXCEPT ![d] = [ch[d] EXCEPT !.type = FALSE, !.vp = None]]
      BY <1>2 DEF Str!Cleared
    <2>2. [ch[d] EXCEPT !.type = FALSE, !.vp = None] \in Channel
      BY DEF Channel
    <2> QED BY <1>2, <2>1, <2>2 DEF Channel
  <1> QED BY <1>1, <1>2

LEMMA LookStop ==
    ASSUME Str!AmioConstants, StopInv, Str!Look PROVE StopInv'
  <1> USE DEF Str!AmioConstants, StopInv
  <1>o. call.op \in {"frozen", "refresh"}
    BY DEF Str!Look, CallInv
  <1> PICK d \in Chans : d = call.c BY DEF Str!Look, CallInv
  <1>a. UNCHANGED <<st, port>> /\ ub = None /\ call.at = "look"
    BY DEF Str!Look
  <1>1. CASE ub' = "freed stream" /\ UNCHANGED <<ch, call>>
    <2>1. TypeOK' BY <1>1, <1>a DEF TypeOK
    <2>2. CallInv' BY <1>1, <1>a DEF CallInv, Str!Runs
    <2>3. ASSUME NEW c \in Chans PROVE ChanInv(c)' /\ OnInv(c)'
      BY <1>1, <1>a DEF ChanInv, OnInv, Str!Runs, Str!HasThread, Told, Str!Units, Left
    <2>4. ASSUME NEW c \in Chans PROVE AgainInv(c)'
      BY <1>1, <1>a DEF AgainInv, Str!Runs, Told
    <2> QED BY <2>1, <2>2, <2>3, <2>4
  <1>2. CASE /\ ch[d].vp = "live" /\ ch[d].type /\ ~st[d].quit
             /\ call' = [call EXCEPT !.at = "stop", !.again = @ \cup {d}]
             /\ UNCHANGED <<ch, ub>>
    <2>1. /\ call'.at = "stop" /\ call'.c = d /\ call'.again = call.again \cup {d}
          /\ call'.op = call.op /\ call' \in Call
      BY <1>2 DEF TypeOK, Call
    <2>2. TypeOK' BY <1>2, <1>a, <2>1 DEF TypeOK
    <2>3. CallInv' BY <1>o, <1>2, <1>a, <2>1 DEF CallInv
    <2>4. ASSUME NEW c \in Chans PROVE ChanInv(c)' /\ OnInv(c)'
      BY ZenonT(60), <1>2, <1>a, <2>1 DEF ChanInv, OnInv, Str!Runs, Str!HasThread, Told, Str!Units, Left
    <2>5. ASSUME NEW c \in Chans PROVE AgainInv(c)'
      BY <1>2, <1>a, <2>1 DEF ChanInv, AgainInv, Str!Runs, Told
    <2> QED BY <2>2, <2>3, <2>4, <2>5
  <1>3. CASE /\ ~(ch[d].vp = "live" /\ ch[d].type /\ ~st[d].quit)
             /\ ch' = Str!Cleared(d) /\ call' = Str!Forward /\ UNCHANGED ub
    <2>1. /\ Str!Forward \in Call /\ (Str!Forward.at # "" => Str!Forward.c \in Chans)
          /\ Str!Forward.at \in {"", "look", "init"}
          /\ Str!Forward.at = "init" => Str!Forward.op = "refresh"
          /\ \/ Str!Forward.op = call.op /\ Str!Forward.again = call.again
             \/ Str!Forward.op = "none" /\ Str!Forward.again = {} /\ Str!Forward.at = ""
      BY <1>o, ForwardFacts
    <2>2. /\ ch' \in [Chans -> Channel]
          /\ \A c \in Chans \ {d} : ch'[c] = ch[c]
          /\ ch' = ch \/ (~ch'[d].type /\ ch'[d].vp = None)
      BY <1>3, ClearedFacts
    <2>3. Driver = "null" \/ ~Str!Runs(d)
      BY <1>3, <1>a DEF ChanInv, Str!HasThread
    <2>4. TypeOK' BY <1>3, <1>a, <2>1, <2>2 DEF TypeOK
    <2>5. CallInv' BY <1>o, <1>3, <2>1 DEF CallInv
    <2>6. ASSUME NEW c \in Chans PROVE AgainInv(c)'
      BY <1>3, <1>a, <2>1 DEF AgainInv, Str!Runs, Told
    <2>7. ASSUME NEW c \in Chans PROVE OnInv(c)'
      BY <1>a DEF OnInv, Str!Runs, Str!Units, Left
    <2>8. ASSUME NEW c \in Chans PROVE ChanInv(c)'
      <3>1. Str!Runs(c)' => Str!HasThread(c)'
        BY <2>2, <2>3, <1>a DEF Str!Runs, Str!HasThread, ChanInv
      <3>2. CASE ch'[c] = ch[c]
        BY <3>1, <3>2, <1>a DEF ChanInv, Str!Runs, Told
      <3>3. CASE c = d /\ ~ch'[d].type /\ ch'[d].vp = None
        BY <3>1, <3>3, <1>a DEF ChanInv, Str!Runs, Told
      <3> QED BY <2>2, <3>2, <3>3
    <2> QED BY <2>4, <2>5, <2>6, <2>7, <2>8
  <1> QED BY <1>1, <1>2, <1>3 DEF Str!Look

LEMMA StopStop ==
    ASSUME Str!AmioConstants, StopInv, Str!Stop PROVE StopInv'
  <1> USE DEF Str!AmioConstants, StopInv
  <1> PICK d \in Chans : d = call.c BY DEF Str!Stop, CallInv
  <1> PICK waits \in BOOLEAN : waits = (~st[d].quit /\ Str!HasThread(d)) OBVIOUS
  <1>a. UNCHANGED <<ch, port>> /\ ub = None /\ call.at = "stop"
    BY DEF Str!Stop
  <1>b. /\ call' \in Call /\ call'.at = IF waits THEN "join" ELSE "stopped"
        /\ call'.c = d /\ call'.op = call.op /\ call'.again = call.again
    BY DEF Str!Stop, TypeOK, Call
  <1>c. waits /\ st[d].thread = "none" => ub' # None
    BY DEF Str!Stop
  <1>d. st' = IF ch[d].type \/ Driver = "null" THEN [st EXCEPT ![d].quit = TRUE] ELSE st
    BY DEF Str!Stop
  <1>e. /\ st' \in [Chans -> Stream] /\ \A c \in Chans \ {d} : st'[c] = st[c]
        /\ st'[d].alive = st[d].alive /\ st'[d].thread = st[d].thread /\ st'[d].on = st[d].on
        /\ st[d].quit => st'[d].quit
        /\ ch[d].type \/ Driver = "null" => st'[d].quit
    <2>1. CASE ch[d].type \/ Driver = "null"
      <3>1. st' = [st EXCEPT ![d] = [st[d] EXCEPT !.quit = TRUE]]
        BY <1>d, <2>1
      <3>2. st[d] \in Stream BY DEF TypeOK
      <3> QED BY <3>1, <3>2, QuitFacts DEF TypeOK
    <2>2. CASE ~(ch[d].type \/ Driver = "null")
      <3>1. st' = st BY <1>d, <2>2
      <3> QED BY <2>2, <3>1 DEF TypeOK
    <2> QED BY <2>1, <2>2
  <1>f. Str!Runs(d) => waits
    BY <1>a DEF ChanInv
  <1>1. TypeOK' BY <1>a, <1>b, <1>e DEF TypeOK
  <1>2. CallInv' BY <1>a, <1>b, <1>e, <1>f DEF CallInv, Str!Runs
  <1>3. ASSUME NEW c \in Chans PROVE ChanInv(c)'
    <2>1. Str!HasThread(c)' <=> Str!HasThread(c) BY <1>a DEF Str!HasThread
    <2> QED BY ZenonT(60), <2>1, <1>a, <1>b, <1>e, <1>f DEF ChanInv, Str!Runs, Told
  <1>4. ASSUME NEW c \in Chans PROVE AgainInv(c)'
    <2>1. CASE c # d
      <3>1. st'[c] = st[c] BY <2>1, <1>e
      <3>2. c \in call.again /\ call.op = "refresh" => st[c].alive /\ Told(c) /\ ~Str!Runs(c)
        BY <2>1, <1>a DEF AgainInv
      <3> QED BY <3>1, <3>2, <1>a, <1>b DEF AgainInv, Str!Runs, Told
    <2>2. CASE c = d
      <3>1. Driver = "null" => Str!HasThread(d) BY DEF Str!HasThread
      <3> QED BY <2>2, <3>1, <1>a, <1>b, <1>c, <1>e, <1>f DEF AgainInv, Str!Runs, Told
    <2> QED BY <2>1, <2>2
  <1>5. ASSUME NEW c \in Chans PROVE OnInv(c)'
    <2>1. st'[c].thread = st[c].thread /\ st'[c].on = st[c].on BY <1>e
    <2> QED BY <2>1 DEF OnInv, Str!Runs, Str!Units, Left
  <1> QED BY <1>1, <1>2, <1>3, <1>4, <1>5

LEMMA JoinStop ==
    ASSUME Str!AmioConstants, StopInv, Str!Join PROVE StopInv'
  <1> USE DEF Str!AmioConstants, StopInv
  <1> PICK d \in Chans : d = call.c BY DEF Str!Join, CallInv
  <1>a. UNCHANGED <<ch, port, st, ub>> /\ ub = None /\ call.at = "join" /\ ~Str!Runs(d)
    BY DEF Str!Join, Str!Runs
  <1>b. /\ call' \in Call /\ call'.at = "stopped"
        /\ call'.c = d /\ call'.op = call.op /\ call'.again = call.again
    BY DEF Str!Join, TypeOK, Call
  <1>1. TypeOK' BY <1>a, <1>b DEF TypeOK
  <1>2. CallInv' BY <1>a, <1>b DEF CallInv, Str!Runs
  <1>3. ASSUME NEW c \in Chans PROVE ChanInv(c)'
    <2>1. Str!HasThread(c)' <=> Str!HasThread(c) BY <1>a DEF Str!HasThread
    <2> QED BY <2>1, <1>a, <1>b DEF ChanInv, Str!Runs, Told
  <1>4. ASSUME NEW c \in Chans PROVE AgainInv(c)'
    BY <1>a, <1>b DEF AgainInv, Str!Runs, Told
  <1>5. ASSUME NEW c \in Chans PROVE OnInv(c)'
    BY <1>a DEF OnInv, Str!Runs, Str!Units, Left
  <1> QED BY <1>1, <1>2, <1>3, <1>4, <1>5

LEMMA StoppedStop ==
    ASSUME Str!AmioConstants, StopInv, Str!Stopped PROVE StopInv'
  <1> USE DEF Str!AmioConstants, StopInv
  <1> PICK d \in Chans : d = call.c BY DEF Str!Stopped, CallInv
  <1>a. ub = None /\ call.at = "stopped" /\ ~Str!Runs(d)
    BY DEF Str!Stopped, CallInv
  <1>b. /\ call' \in Call /\ (call'.at # "" => call'.c \in Chans)
        /\ call'.at \in {"", "look", "init"}
        /\ call'.at = "init" => call'.op = "refresh"
        /\ \/ call'.op = call.op /\ call'.again = call.again /\ call.op \in {"frozen", "refresh"}
           \/ call'.op = "none" /\ call'.again = {} /\ call'.at = ""
    <2>1. CASE call.op \in {"frozen", "refresh"}
      <3>1. call' = Str!Forward BY <2>1 DEF Str!Stopped
      <3> QED BY <2>1, <3>1, ForwardFacts
    <2>2. CASE call.op \notin {"frozen", "refresh"}
      <3>1. call' = Str!NoCall BY <2>2 DEF Str!Stopped
      <3> QED BY <3>1 DEF Str!NoCall, Call
    <2> QED BY <2>1, <2>2
  <1>c. /\ \A c \in Chans \ {d} : port'[c] = port[c]
        /\ port' \in [Chans -> {"none", "created", "started", "cancelled",
                                 "stopped", "destroyed"}]
        /\ call.op = "refresh" => port' = port
    BY DEF Str!Stopped, TypeOK
  <1>d. /\ st' \in [Chans -> Stream] /\ \A c \in Chans \ {d} : st'[c] = st[c]
        /\ st'[d].thread = st[d].thread /\ st'[d].quit = st[d].quit
        /\ st'[d] = st[d] \/ (~st'[d].alive /\ st'[d].on = st[d].on \ Str!Venc)
        /\ call.op = "refresh" => st' = st
        /\ call.op \in {"destroy", "frozen"} => ~st'[d].alive
    <2>1. CASE call.op \in {"destroy", "frozen"}
      <3>1. st' = [st EXCEPT ![d] = [st[d] EXCEPT !.alive = FALSE, !.on = @ \ Str!Venc]]
        BY <2>1 DEF Str!Stopped
      <3> PICK f : f = [st[d] EXCEPT !.alive = FALSE, !.on = @ \ Str!Venc] OBVIOUS
      <3>2. st[d] \in Stream BY DEF TypeOK
      <3>3. /\ f \in Stream /\ ~f.alive /\ f.on = st[d].on \ Str!Venc
            /\ f.thread = st[d].thread /\ f.quit = st[d].quit
        BY <3>2, FreedFacts
      <3>4. st' \in [Chans -> Stream] /\ st'[d] = f /\ \A c \in Chans \ {d} : st'[c] = st[c]
        BY <3>1, <3>3 DEF TypeOK
      <3> QED BY <2>1, <3>3, <3>4
    <2>2. CASE call.op \notin {"destroy", "frozen"}
      <3>1. st' = st BY <2>2 DEF Str!Stopped
      <3> QED BY <2>2, <3>1 DEF TypeOK
    <2> QED BY <2>1, <2>2
  <1>e. /\ ch' \in [Chans -> Channel] /\ \A c \in Chans \ {d} : ch'[c] = ch[c]
        /\ (ch' = ch /\ st' = st) \/ (~st'[d].alive /\ ch'[d].vp # "live")
    <2>1. CASE call.op = "frozen"
      <3>1. ch' = Str!Cleared(d) /\ ~st'[d].alive
        BY <2>1, <1>d DEF Str!Stopped
      <3> QED BY <2>1, <3>1, ClearedFacts
    <2>2. CASE call.op = "destroy"
      <3>1. PICK v \in {None, "freed"} : ch' = [ch EXCEPT ![d].vp = v]
        BY <2>2 DEF Str!Stopped
      <3>2. ch'[d] \in Channel /\ ch'[d].vp = v
        BY ZenonT(60), <3>1 DEF TypeOK, Channel
      <3>3. ~st'[d].alive
        BY <2>2, <1>d
      <3> QED BY <3>1, <3>2, <3>3 DEF TypeOK
    <2>3. CASE call.op \notin {"destroy", "frozen"}
      <3>1. ch' = ch /\ st' = st BY <2>3 DEF Str!Stopped
      <3> QED BY <3>1 DEF TypeOK
    <2> QED BY <2>1, <2>2, <2>3
  <1>1. TypeOK' BY <1>b, <1>c, <1>d, <1>e DEF TypeOK
  <1>2. CallInv' BY <1>a, <1>b DEF CallInv
  <1>3. ASSUME NEW c \in Chans PROVE ChanInv(c)'
    <2>1. CASE c # d
      <3>1. st'[c] = st[c] /\ ch'[c] = ch[c] /\ port'[c] = port[c]
        BY <2>1, <1>c, <1>d, <1>e
      <3>2. Str!HasThread(c)' <=> Str!HasThread(c) BY <3>1 DEF Str!HasThread
      <3> QED BY <2>1, <3>1, <3>2, <1>a DEF ChanInv, Str!Runs, Told
    <2>2. CASE c = d
      <3>1. ch[d].type \/ Driver = "null" => st[d].quit BY <1>a DEF CallInv
      <3>2. ~Str!Runs(d)' BY <1>a, <1>d DEF Str!Runs
      <3>3. CASE ch' = ch /\ st' = st
        BY <2>2, <3>1, <3>2, <3>3 DEF ChanInv
      <3>4. CASE ~st'[d].alive /\ ch'[d].vp # "live"
        BY <2>2, <3>2, <3>4 DEF ChanInv
      <3> QED BY <1>e, <3>3, <3>4
    <2> QED BY <2>1, <2>2
  <1>4. ASSUME NEW c \in Chans PROVE AgainInv(c)'
    BY <1>a, <1>b, <1>c, <1>d DEF AgainInv, Str!Runs, Told
  <1>5. ASSUME NEW c \in Chans PROVE OnInv(c)'
    <2>1. CASE st'[c] = st[c]
      BY <2>1 DEF OnInv, Str!Runs, Str!Units, Left
    <2>2. CASE c = d /\ st'[d].on = st[d].on \ Str!Venc
      BY <1>a, <1>d, <2>2 DEF OnInv, Str!Runs, Str!Units, Left, Str!Venc
    <2> QED BY <2>1, <2>2, <1>d
  <1> QED BY <1>1, <1>2, <1>3, <1>4, <1>5

LEMMA ReinitStop ==
    ASSUME Str!AmioConstants, StopInv, NEW ok \in BOOLEAN, NEW made \in SUBSET Chans, Str!Reinit(ok, made)
    PROVE  StopInv'
  <1> USE DEF Str!AmioConstants, StopInv
  <1>a. UNCHANGED <<ch, port, ub>> /\ ub = None /\ call.at = "init" /\ call.op = "refresh"
        /\ call' = Str!NoCall
    BY DEF Str!Reinit, CallInv
  <1>b. /\ call' \in Call /\ call'.at = "" /\ call'.op = "none" /\ call'.again = {}
    BY <1>a DEF Str!NoCall, Call
  <1>c. ASSUME NEW c \in Chans
        PROVE  \/ st'[c] = st[c]
               \/ c \in call.again /\ st'[c] = Str!Started(st[c], Str!HasThread(c) /\ c \in made)
    BY DEF Str!Reinit
  <1>d. ASSUME NEW c \in Chans
        PROVE  /\ st'[c] \in Stream
               /\ \/ st'[c] = st[c]
                  \/ /\ c \in call.again /\ ~Str!Runs(c) /\ st[c].alive /\ Told(c)
                     /\ st'[c].alive /\ ~st'[c].quit /\ st'[c].on = st[c].on
                     /\ \/ Str!HasThread(c) /\ st'[c].thread = "new"
                        \/ st'[c].thread = st[c].thread
    <2>1. CASE st'[c] = st[c] BY <2>1 DEF TypeOK
    <2>2. CASE c \in call.again /\ st'[c] = Str!Started(st[c], Str!HasThread(c) /\ c \in made)
      <3>1. ~Str!Runs(c) /\ st[c].alive /\ Told(c)
        BY <2>2, <1>a DEF AgainInv
      <3>2. st[c] \in Stream BY DEF TypeOK
      <3>3. /\ st'[c] \in Stream /\ ~st'[c].quit
            /\ st'[c].alive = st[c].alive /\ st'[c].on = st[c].on
            /\ \/ Str!HasThread(c) /\ st'[c].thread = "new"
               \/ st'[c].thread = st[c].thread
        <4>1. CASE Str!HasThread(c) /\ c \in made
          <5>1. st'[c] = Str!Started(st[c], TRUE)
            BY <2>2, <4>1 DEF Str!Started
          <5> QED BY <4>1, <5>1, <3>2, StartedFacts
        <4>2. CASE ~(Str!HasThread(c) /\ c \in made)
          <5>1. st'[c] = Str!Started(st[c], FALSE)
            BY <2>2, <4>2 DEF Str!Started
          <5> QED BY <5>1, <3>2, StartedFacts
        <4> QED BY <4>1, <4>2
      <3> QED BY <2>2, <3>1, <3>3
    <2> QED BY <1>c, <2>1, <2>2
  <1>e. st' \in [Chans -> Stream]
    BY <1>d DEF Str!Reinit
  <1>1. TypeOK' BY <1>a, <1>b, <1>e DEF TypeOK
  <1>2. CallInv' BY <1>b DEF CallInv
  <1>3. ASSUME NEW c \in Chans PROVE ChanInv(c)'
    <2>1. Str!HasThread(c)' <=> Str!HasThread(c) BY <1>a DEF Str!HasThread
    <2> QED BY <2>1, <1>a, <1>b, <1>d DEF ChanInv, Str!Runs, Told
  <1>4. ASSUME NEW c \in Chans PROVE AgainInv(c)'
    BY <1>b DEF AgainInv
  <1>5. ASSUME NEW c \in Chans PROVE OnInv(c)'
    BY <1>d DEF OnInv, Str!Runs, Str!Units, Left
  <1> QED BY <1>1, <1>2, <1>3, <1>4, <1>5

\* It needs no fairness.
LEMMA StopAlways ==
    ASSUME Str!AmioConstants
    PROVE  Str!Init /\ [][Str!Next]_Str!vars => []Str!AmioStopIsFinal
  <1>1. Str!Init => StopInv BY InitStop
  <1>2. StopInv /\ [Str!Next]_Str!vars => StopInv'
    <2> SUFFICES ASSUME StopInv, [Str!Next]_Str!vars PROVE StopInv' OBVIOUS
    <2>1. CASE Str!AppNext BY <2>1, AppStop
    <2>2. CASE Str!CallNext
      BY <2>2, LookStop, StopStop, JoinStop, StoppedStop, ReinitStop DEF Str!CallNext
    <2>3. CASE \E c \in Chans : Str!ThreadNext(c) BY <2>3, ThreadStop
    <2>4. CASE UNCHANGED Str!vars
      <3>1. TypeOK' /\ CallInv' BY <2>4 DEF Str!vars, StopInv, TypeOK, CallInv, Str!Runs
      <3>2. ASSUME NEW c \in Chans PROVE ChanInv(c)'
        BY <2>4 DEF Str!vars, StopInv, ChanInv, Str!Runs, Str!HasThread, Told
      <3>3. ASSUME NEW c \in Chans PROVE AgainInv(c)' /\ OnInv(c)'
        BY <2>4 DEF Str!vars, StopInv, AgainInv, OnInv, Str!Runs, Told, Str!Units, Left
      <3> QED BY <3>1, <3>2, <3>3 DEF StopInv
    <2> QED BY <2>1, <2>2, <2>3, <2>4 DEF Str!Next
  <1>3. StopInv => Str!AmioStopIsFinal
    BY DEF StopInv, ChanInv, OnInv, Left, Told, Str!AmioStopIsFinal, Str!NoFrameAfterStop,
           Str!AioOnlyWhileRunning
  <1> QED BY <1>1, <1>2, <1>3, PTL

----------------------------------------------------------------------------
\* However the application's calls, the frames and the failures of the
\* hardware interleave, a stream that was stopped or freed has no thread: no
\* frame reaches a port after AMIO_StreamStop or AMIO_StreamDestroy returned,
\* and the audio units are on only for a thread that runs (amio_drv.c,
\* null_dev.c, hiaudio.c, hivideo.c).
THEOREM StopIsFinal ==
    ASSUME Str!AmioConstants PROVE Str!Spec => []Str!AmioStopIsFinal
  BY StopAlways, PTL DEF Str!Spec
=============================================================================
