------------------------------ MODULE AmioDrv ------------------------------
(***************************************************************************)
(* The driver table of amio_drv.c: loading, activation, and the list of    *)
(* channels through which the application finds them.  Drivers count from  *)
(* 0; the table is static, so that what no call has set is 0.              *)
(***************************************************************************)
EXTENDS Integers, Sequences, SequencesExt

CONSTANTS
    Drivers,    \* 0..n-1, what device_load enumerates
    Chnls,      \* AMIO_DEV_CHANNEL_MAX, m_u8ChnnlTotal of every device
    ListMax,    \* bound: AMIO_DEVICE_SUB_MAX, which the code does not test
    None        \* NULL

Invalid == -3     \* AMIO_DEV_INVALID
Count == 1 + CHOOSE d \in Drivers : \A e \in Drivers : e <= d
Slots == Drivers \cup {Count}      \* one more than there are drivers

\* What the proofs assume of the constants.
AmioDrvConstants == Chnls \in Nat /\ Drivers \subseteq Nat /\ \E n \in Drivers : Drivers = 0..n

VARIABLES
    init,      \* m_u8InitCnt
    total,     \* m_u8DrvTotal
    factory,   \* in_pFactory: None, or its m_strPathIni and channel names are set
    drv,       \* m_u32ChnlCnt, m_u32StartIdx, m_u32DefaultIdx
    list,      \* m_au32ChnlList up to m_u8ChnlToal
    claimed    \* the devices whose last AMIO_DevActive returned 0

vars == <<init, total, factory, drv, list, claimed>>

Init ==
    /\ init = 0 /\ total = 0 /\ list = <<>> /\ claimed = {}
    /\ factory = [d \in Slots |-> None]
    /\ drv = [d \in Slots |-> [cnt |-> 0, start |-> 0, dflt |-> 0]]

\* Only the first load makes the factories, up to the first that fails; the
\* total counts one more than that.
DrvLoad(made) ==
    /\ init < 2
    /\ init' = init + 1
    /\ IF init # 0 THEN UNCHANGED <<total, factory>>
       ELSE /\ total' = made + 1
            /\ factory' = [d \in Slots |-> IF d < made THEN [path |-> FALSE, named |-> FALSE]
                                           ELSE IF d = made THEN None ELSE factory[d]]
    /\ claimed' = IF init = 0 THEN {} ELSE claimed
    /\ UNCHANGED <<drv, list>>
\* The last unload freezes the devices; the tables stay.
DrvUnload ==
    /\ init > 0 /\ init' = init - 1
    /\ UNCHANGED <<total, factory, drv, list, claimed>>

\* lookup_drv: by name, among the loaded drivers that have a factory.
LookupDrv(d) == d < total /\ factory[d] # None

\* device_active, with the outcome of the driver's funcInit: "ini" if the
\* configuration cannot be read, "hw" if the hardware fails after it was.
Outcomes == {"ok", "ini", "hw"}
Inited(f, outcome) == IF outcome = "ini" THEN f ELSE [path |-> TRUE, named |-> TRUE]
Listed(d) == [i \in 1..Chnls |-> <<d, i - 1>>]
DevActiveUnlisted(d, outcome) ==                                 \* mutant
    /\ LookupDrv(d) /\ ~factory[d].path /\ outcome = "ok"
    /\ factory' = [factory EXCEPT ![d] = [path |-> TRUE, named |-> TRUE]]
    /\ drv' = [drv EXCEPT ![d] = [cnt |-> Chnls, start |-> Len(list) + 1, dflt |-> 0]]
    /\ list' = list \o Listed(d) /\ Len(list) < ListMax
    /\ claimed' = claimed \cup {d}
    /\ UNCHANGED <<init, total>>
DevActive(d, outcome) ==
    /\ LookupDrv(d)
    /\ IF factory[d].path
       THEN claimed' = claimed \cup {d} /\ UNCHANGED <<factory, drv, list>>
       ELSE /\ factory' = [factory EXCEPT ![d] = Inited(@, outcome)]
            /\ IF outcome = "ok"
               THEN /\ drv' = [drv EXCEPT ![d] =
                          [cnt |-> Chnls, start |-> Len(list), dflt |-> 0]]
                    /\ list' = list \o Listed(d) /\ Len(list') <= ListMax
                    /\ claimed' = claimed \cup {d}
               ELSE /\ drv' = [drv EXCEPT ![d].dflt = Invalid]
                    /\ claimed' = claimed \ {d} /\ UNCHANGED list
    /\ UNCHANGED <<init, total>>
\* funcRefresh of the driver, which loads the configuration again.
DevRefresh(d, outcome) ==
    /\ LookupDrv(d)
    /\ factory' = [factory EXCEPT ![d] = Inited(@, outcome)]
    /\ UNCHANGED <<init, total, drv, list, claimed>>

\* AMIO_DevLookup: the list index of a channel, by the names.
DevLookup(d, i) == drv[d].start + i

\* lookup_dev: from a list index, or the first default channel for a negative
\* one, to the driver and the channel; <<-1, -1>> if there is none.
Entry(k) == IF k < Len(list) THEN list[k + 1] ELSE <<0, 0>>
LookupDev(k) ==
    LET found == {d \in Slots : d < total /\ drv[d].dflt >= 0}
        d0    == CHOOSE d \in found : \A e \in found : d <= e
        at    == IF k >= 0 THEN k ELSE IF k = Invalid \/ found = {} THEN -1
                 ELSE drv[d0].start + drv[d0].dflt
        e     == Entry(at)
    IN  IF at < 0 \/ e[1] >= total \/ e[2] >= drv[e[1]].cnt THEN <<-1, -1>> ELSE e

Next ==
    \/ \E made \in 0..Count : DrvLoad(made)
    \/ DrvUnload
    \/ \E d \in Drivers, o \in Outcomes : DevActive(d, o) \/ DevRefresh(d, o)

Spec == Init /\ [][Next]_vars

----------------------------------------------------------------------------
\* The index that AMIO_DevLookup gives for a channel leads AMIO_StreamCreate to
\* that channel of that device, over every order of loading, activation and
\* refreshing, if the device was ever listed, that is, activated with success.
\* A device whose names are known without that, from a failed activation or a
\* refresh, has no place in the list: its start index is still 0, and the lookup,
\* which reports success, leads to the same channel of whichever device was
\* activated first, or to none while no device was or the first is not loaded.
AmioLookupRight ==
    \A d \in Drivers, i \in 0..Chnls-1 :
        LookupDrv(d) /\ factory[d].named =>
            LookupDev(DevLookup(d, i)) =
                IF <<d, i>> \in ToSet(list) THEN <<d, i>>
                ELSE IF list # <<>> /\ list[1][1] < total THEN <<list[1][1], i>>
                ELSE <<-1, -1>>

\* A device whose activation is reported done can be found; after a failure
\* of the hardware the second activation does nothing and reports success.
ActiveIsListed == \A d \in claimed : <<d, 0>> \in ToSet(list)
============================================================================
