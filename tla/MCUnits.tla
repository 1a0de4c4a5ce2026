------------------------------ MODULE MCUnits ------------------------------
(***************************************************************************)
(* Small instances of the units.                                           *)
(***************************************************************************)
EXTENDS Units

CONSTANTS c1, c2, s1, port1, port2, port3, port4, q1, q2, p1, p2

\* GKI with three pools, of which it makes one at the start, and the last is
\* restricted; AKI with two pools of different numbers of packages.
MCGki == [NPools |-> 3, BufSize |-> 4, BufMax |-> 1, Mask |-> {2}, Sizes |-> {1, 9},
          Counts |-> {2}, Queues |-> {}, Memories |-> {}]
MCAki == [NPools |-> 2, BufSize |-> 0, BufMax |-> 0, Mask |-> {}, Sizes |-> {4, 8},
          Counts |-> {}, Queues |-> {q1, q2}, Memories |-> {48, 56}]
MCCircular == [Size |-> 10, Lengths |-> {1, 2, 3}, MaxSize |-> 4, WrittenMax |-> 14]
MCPool == [Pools |-> {p1, p2}, PoolSize |-> 8, BlockSize |-> 4,
           pool_sizes |-> <<16, 24, 32>>, START |-> 2, Inits |-> {13, 33},
           Incs |-> {0, 7}, Requests |-> {1, 9}, CapacityMax |-> 0, BlockMax |-> 2]

\* Two clients of one track, then one client of two tracks.
MCRtspV == [Clients |-> {c1, c2}, Sessions |-> {s1}, Tracks |-> {"v"},
            NbPkts |-> 1, Ports |-> {1, 2}, MaxPkts |-> 4]
MCRtspAV == [Clients |-> {c1}, Sessions |-> {s1}, Tracks |-> {"v", "a"},
             NbPkts |-> 1, Ports |-> {1, 2}, MaxPkts |-> 3]

\* What a client sends: requests with and without CSeq and body, frames of an
\* interleaved channel, a response, a request that does not fit into the buffer,
\* and text that is no message.
Request(method, hdrs) == [type |-> "request", method |-> method, hdrs |-> hdrs]
Raw(cells) == [type |-> "raw", cells |-> cells]
Start == [t |-> "start", type |-> "request", method |-> "PLAY"]
Line == [t |-> "crlf"]
Text == [t |-> "text"]
BadHdr(name) == [t |-> "hdr", name |-> name, val |-> 0, ok |-> FALSE]
Scripts ==
    {<<Request("OPTIONS", [cseq |-> 1]), Request("DESCRIBE", [cseq |-> 2, content_length |-> 2]),
       [type |-> "interleaved", len |-> 2], Request("PLAY", [cseq |-> 3])>>,
     <<Request("SETUP", [cseq |-> 1]), Request("PAUSE", [session |-> 5]),
       [type |-> "response", method |-> "none", hdrs |-> [cseq |-> 9]]>>,
     <<Request("OPTIONS", [cseq |-> 1]), Raw(<<Start, Line, BadHdr("cseq"), Line, Line>>)>>,
     <<[type |-> "interleaved", len |-> 0], Raw(<<Text, Text, Text, Text, Text>>)>>,
     <<Request("OPTIONS", [cseq |-> 1]), Request("PLAY", [content_length |-> 6])>>,
     <<Raw(<<Text, Line, Line>>)>>,
     <<Raw(<<Start, Line, BadHdr("content_length"), Line, Line>>)>>}

MCMsg == [Scripts |-> Scripts, BufMax |-> 9, SdpLen |-> 2, LineMax |-> 3, HdrMax |-> 10]

\* Units shorter than, as long as and longer than a packet; bytes from 3 on
\* make no start code.
Unit(n, from) == [i \in 1 .. n |-> from + i]
Lengths == {0, 1, 5, 6, 9}
Adts(m) == <<255, 241, 80, 80, 80, 80, 80>> \o Unit(m, 100)

MCRtp == [Units |-> {<<Unit(m, 100)>> : m \in Lengths}
                    \cup {<<Unit(m, 100), Unit(n, 200)>> : m, n \in Lengths}
                    \cup {<<Adts(m)>> : m \in Lengths},
          Caps |-> {5, 6, 7}, NbPkts |-> 7, Codecs |-> {"h264", "h265", "aac", "g711"}]

\* A stream that is played, one that the program pauses, one it opens again, a
\* live one in which it seeks, and one it publishes after authenticating.
Setup(media, calls) ==
    [write |-> FALSE, live |-> FALSE, plst |-> FALSE, bufx |-> FALSE, auth |-> 0,
     media |-> media, noise |-> 0, connects |-> 1, asks |-> {}, calls |-> calls]
Setups ==
    {[Setup(9, 4) EXCEPT !.bufx = TRUE],
     [Setup(9, 8) EXCEPT !.asks = {"toggle"}],
     [Setup(0, 4) EXCEPT !.asks = {"reconnect"}, !.noise = 1, !.connects = 2],
     [Setup(0, 4) EXCEPT !.asks = {"reconnect"}, !.plst = TRUE, !.connects = 2],
     [Setup(1, 7) EXCEPT !.asks = {"seek"}, !.live = TRUE, !.plst = TRUE, !.connects = 2],
     [Setup(0, 6) EXCEPT !.write = TRUE, !.auth = 1, !.noise = 1, !.connects = 2]}

MCSession == [Setups |-> Setups, Window |-> 4]

MCNegan == [Clients |-> {c1, c2}, Sessions |-> {s1}, MsgLen |-> 2, BufMax |-> 3, Sent |-> 4]
MCDrivers == [Drivers |-> {0, 1}, Chnls |-> 2, ListMax |-> 8]
MCNull == [Driver |-> "null", Chans |-> {1, 2}, Lookup |-> TRUE]
MCAudio == [Driver |-> "hiaudio", Chans |-> {1, 2}, Lookup |-> TRUE]
MCVideo == [Driver |-> "hivideo", Chans |-> {1, 2}, Lookup |-> TRUE]
MCDelay == [Spf |-> 4, Channels |-> 2, Ptime |-> 2, MaxDelay |-> 5, RecalcTime |-> 4,
            Wsola |-> TRUE, LevelMax |-> 4]
MCSimple == [MCDelay EXCEPT !.MaxDelay = 3, !.Wsola = FALSE]
MCPorts == [Ports |-> {port1, port2, port3, port4}, SlotMax |-> 2]
=============================================================================
