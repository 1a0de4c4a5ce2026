----------------------------- MODULE AmioStream -----------------------------
(***************************************************************************)
(* The life of the streams of one amio device: amio_drv.c above, and below *)
(* it null_dev.c, hisiv/hiaudio.c or hisiv/hivideo.c, as Driver says.  The *)
(* application's thread makes one call at a time; every started stream has *)
(* a thread that hands frames to the stream's port, and a call that stops  *)
(* a stream waits for that thread.  Calls of the HiSilicon library may     *)
(* fail (external).                                                        *)
(***************************************************************************)
EXTENDS Integers

CONSTANTS
    Driver,     \* "null", "hiaudio" or "hivideo"
    Chans,      \* channels 1..n; the first one captures
    Lookup,     \* audio:lookup of the ini file
    None        \* NULL

\* What the proofs assume of them: a device has at least its first channel.
AmioConstants ==
    /\ Chans \subseteq Nat \ {0} /\ 1 \in Chans
    /\ Lookup \in BOOLEAN
    /\ None \notin {"live", "failed", "freed", "join of no thread"}

VARIABLES
    ch,     \* per channel: m_enType # NONE, m_enDir # NONE, m_vpStream
    st,     \* the stream of a channel: not freed, m_bQuit, its thread, and
            \* what is switched on
    port,   \* per channel: the last PORT_Dispatch of its port
    call,   \* the call in progress: what, on which channel, and where it is
    ub      \* the undefined behaviour that was met; nothing follows it

vars == <<ch, st, port, call, ub>>

NoCall == [op |-> "none", c |-> 0, at |-> "", again |-> {}]
NoStream == [alive |-> FALSE, quit |-> TRUE, thread |-> "none", on |-> {}]

Init ==
    /\ ch = [c \in Chans |-> [type |-> TRUE, dir |-> FALSE, vp |-> None]]
    /\ st = [c \in Chans |-> NoStream]
    /\ port = [c \in Chans |-> "none"]
    /\ call = NoCall /\ ub = None

Idle == call = NoCall /\ ub = None
Held(c) == Idle /\ st[c].alive     \* the application has the stream

----------------------------------------------------------------------------
\* The factory's functions.
DefaultInfo(c) ==
    /\ Idle /\ ~ch[c].dir
    /\ ch' = [ch EXCEPT ![c].dir = TRUE]
    /\ UNCHANGED <<st, port, call, ub>>

\* The encoder's parts, in the order they are switched on; of a step that
\* fails all are switched off and the stream stays behind, unused.
Venc == {"vpss", "venc", "bound"}
NewStream == [alive |-> TRUE, quit |-> Driver # "null", thread |-> "none",
              on |-> IF Driver = "hivideo" THEN Venc ELSE {}]
CreateStream(c) ==
    /\ Idle /\ ~st[c].alive /\ (Driver = "hivideo" => ch[c].type)
    /\ ch' = [ch EXCEPT ![c].vp = "live"]
    /\ st' = [st EXCEPT ![c] = NewStream]
    /\ port' = [port EXCEPT ![c] = "created"]
    /\ UNCHANGED <<call, ub>>
CreateFails(c) ==
    /\ Idle /\ ~st[c].alive /\ Driver = "hivideo" /\ ch[c].type
    /\ ch' = [ch EXCEPT ![c].vp = "failed"]
    /\ st' = [st EXCEPT ![c] = NoStream]
    /\ UNCHANGED <<port, call, ub>>

\* Whether *_stream_start makes a thread and *_stream_stop waits for one.
HasThread(c) ==
    \/ Driver = "null"
    \/ /\ ch[c].type /\ ch[c].dir
       /\ ~(Driver = "hiaudio" /\ c # 1 /\ Lookup)
Started(s, ok) == [s EXCEPT !.quit = FALSE, !.thread = IF ok THEN "new" ELSE @]

\* AMIO_StreamStart; THREAD_Create may fail.  A running stream is not started
\* again: nothing in the code keeps the application from it.
StreamStart(c, ok) ==
    /\ Held(c) /\ st[c].thread \notin {"new", "run", "frame"}
    /\ port' = [port EXCEPT ![c] = "started"]
    /\ st' = [st EXCEPT ![c] = Started(@, HasThread(c) /\ ok)]
    /\ UNCHANGED <<ch, call, ub>>

\* The calls that stop streams are taken step by step.
Begin(op, c) ==
    /\ Held(c)
    /\ port' = [port EXCEPT ![c] = "cancelled"]
    /\ call' = [op |-> op, c |-> c, at |-> "stop", again |-> {}]
    /\ UNCHANGED <<ch, st, ub>>
StreamStop(c) == Begin("stop", c)
StreamDestroy(c) == Begin("destroy", c)

\* funcDeinit and funcRefresh go through the channels and stop the streams
\* that run; a stream that was destroyed is still in m_vpStream.
DevCall(op) ==
    /\ Idle /\ ~(op = "refresh" /\ Driver = "hivideo")
    /\ call' = [op |-> op, c |-> 1, at |-> "look", again |-> {}]
    /\ UNCHANGED <<ch, st, port, ub>>
Cleared(c) == IF call.op = "frozen"
              THEN [ch EXCEPT ![c].type = FALSE, ![c].vp = None] ELSE ch
Forward == IF call.c + 1 \in Chans
           THEN [call EXCEPT !.c = @ + 1, !.at = "look"]
           ELSE IF call.op = "refresh" THEN [call EXCEPT !.at = "init"] ELSE NoCall
Look ==
    LET c == call.c
        vp == ch[c].vp
    IN  /\ call.at = "look" /\ ub = None
        /\ IF vp = "freed" /\ ch[c].type
           THEN ub' = "freed stream" /\ UNCHANGED <<ch, call>>
           ELSE IF vp = "live" /\ ch[c].type /\ ~st[c].quit
           THEN /\ call' = [call EXCEPT !.at = "stop", !.again = @ \cup {c}]
                /\ UNCHANGED <<ch, ub>>
           ELSE ch' = Cleared(c) /\ call' = Forward /\ UNCHANGED ub
        /\ UNCHANGED <<st, port>>

StopUnquit ==                                                    \* mutant
    LET c == call.c IN
    /\ call.at = "stop" /\ ub = None
    /\ LET waits == ~st[c].quit /\ HasThread(c) IN
       /\ ub' = IF waits /\ st[c].thread = "none" THEN "join of no thread" ELSE None
       /\ call' = [call EXCEPT !.at = IF waits THEN "join" ELSE "stopped"]
    /\ UNCHANGED <<ch, st, port>>

\* *_stream_stop: m_bQuit, then THREAD_Join of a thread that may not exist.
Stop ==
    LET c == call.c IN
    /\ call.at = "stop" /\ ub = None
    /\ LET waits == ~st[c].quit /\ HasThread(c) IN
       /\ ub' = IF waits /\ st[c].thread = "none" THEN "join of no thread" ELSE None
       /\ call' = [call EXCEPT !.at = IF waits THEN "join" ELSE "stopped"]
    /\ st' = IF ch[c].type \/ Driver = "null" THEN [st EXCEPT ![c].quit = TRUE] ELSE st
    /\ UNCHANGED <<ch, port>>
JoinNot ==                                                       \* mutant
    /\ call.at = "join" /\ ub = None
    /\ call' = [call EXCEPT !.at = "stopped"]
    /\ UNCHANGED <<ch, st, port, ub>>
Join ==
    /\ call.at = "join" /\ ub = None
    /\ st[call.c].thread = "exited"
    /\ call' = [call EXCEPT !.at = "stopped"]
    /\ UNCHANGED <<ch, st, port, ub>>

\* What follows the stop; *_stream_destroy frees the stream's pool, and that
\* of hivideo.c goes on to read it.
Stopped ==
    LET c == call.c
        destroys == call.op \in {"destroy", "frozen"}
    IN  /\ call.at = "stopped" /\ ub = None
        /\ port' = IF call.op = "stop" THEN [port EXCEPT ![c] = "stopped"]
                   ELSE IF call.op = "destroy" THEN [port EXCEPT ![c] = "destroyed"]
                   ELSE port
        /\ IF call.op \in {"frozen", "refresh"}
           THEN call' = Forward ELSE call' = NoCall
        /\ IF destroys
           THEN /\ st' = [st EXCEPT ![c].alive = FALSE, ![c].on = @ \ Venc]
                /\ ch' = IF call.op = "frozen" THEN Cleared(c)
                         ELSE [ch EXCEPT ![c].vp = IF @ = None THEN None ELSE "freed"]
           ELSE UNCHANGED <<st, ch>>
        /\ ub' \in IF destroys /\ Driver = "hivideo" THEN {None, "read after free"} ELSE {None}

\* *_factory_refresh reloads the ini file; if it can be read, the streams it
\* stopped are started again, without a word to their ports and without a look
\* at the result: made are those whose THREAD_Create succeeds.
Reinit(ok, made) ==
    /\ call.at = "init" /\ ub = None
    /\ st' = [c \in Chans |->
                IF ok /\ c \in call.again
                THEN Started(st[c], HasThread(c) /\ c \in made) ELSE st[c]]
    /\ call' = NoCall
    /\ UNCHANGED <<ch, port, ub>>

----------------------------------------------------------------------------
\* The stream's thread.  That of hiaudio.c switches the input or the output
\* on, and leaves when it cannot; with the lookup on, the capturing thread
\* does both, and an output that fails leaves the input on.
Units(c) == IF Driver # "hiaudio" THEN {}
            ELSE IF c # 1 THEN {"ao"} ELSE IF Lookup THEN {"ai", "ao"} ELSE {"ai"}
ThreadBegins(c, got) ==
    /\ st[c].thread = "new" /\ ub = None
    /\ got \subseteq Units(c) /\ ("ao" \in got /\ c = 1 => "ai" \in got)
    /\ st' = [st EXCEPT ![c].on = @ \cup got,
                        ![c].thread = IF got = Units(c) THEN "run" ELSE "exited"]
    /\ UNCHANGED <<ch, port, call, ub>>
\* The callback of one frame, and back to the test of m_bQuit.
Frame(c) ==
    /\ st[c].thread = "run" /\ ~st[c].quit /\ ub = None
    /\ st' = [st EXCEPT ![c].thread = "frame"]
    /\ UNCHANGED <<ch, port, call, ub>>
FrameEnds(c) ==
    /\ st[c].thread = "frame" /\ ub = None
    /\ st' = [st EXCEPT ![c].thread = "run"]
    /\ UNCHANGED <<ch, port, call, ub>>
\* The end of the thread: m_bQuit, or a failure of the hardware.
ThreadEnds(c) ==
    /\ st[c].thread = "run" /\ (st[c].quit \/ Driver # "null") /\ ub = None
    /\ st' = [st EXCEPT ![c].thread = "exited", ![c].on = @ \ Units(c)]
    /\ UNCHANGED <<ch, port, call, ub>>

AppNext ==
    \/ \E c \in Chans : \/ DefaultInfo(c) \/ CreateStream(c) \/ CreateFails(c)
                        \/ \E ok \in BOOLEAN : StreamStart(c, ok)
                        \/ StreamStop(c) \/ StreamDestroy(c)
    \/ \E op \in {"frozen", "refresh"} : DevCall(op)
CallNext ==
    \/ Look \/ Stop \/ Join \/ Stopped
    \/ \E ok \in BOOLEAN, made \in SUBSET Chans : Reinit(ok, made)
ThreadNext(c) == \/ \E got \in SUBSET Units(c) : ThreadBegins(c, got)
                 \/ Frame(c) \/ FrameEnds(c) \/ ThreadEnds(c)

Next == AppNext \/ CallNext \/ \E c \in Chans : ThreadNext(c)
Fairness == WF_vars(CallNext) /\ \A c \in Chans : WF_vars(ThreadNext(c))
Spec == Init /\ [][Next]_vars /\ Fairness

----------------------------------------------------------------------------
Runs(c) == st[c].thread \in {"new", "run", "frame"}

\* AMIO_StreamStop and AMIO_StreamDestroy return when the stream's thread is
\* gone: no frame reaches a port that was told to stop, and no thread works
\* on a stream that was freed, also by a frozen device.
NoFrameAfterStop ==
    \A c \in Chans : port[c] \in {"created", "stopped", "destroyed"} \/ ~st[c].alive
                     => ~Runs(c)

\* The audio input and output are on only for a thread that runs; what stays
\* on otherwise is the input of a capture thread that could not switch the
\* output on as well.
AioOnlyWhileRunning ==
    \A c \in Chans : st[c].on \cap {"ai", "ao"} # {} =>
        Runs(c) \/ (Lookup /\ c = 1 /\ st[c].on = {"ai"})

AmioStopIsFinal == NoFrameAfterStop /\ AioOnlyWhileRunning
============================================================================
