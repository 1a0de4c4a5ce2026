----------------------------- MODULE HttpWords -----------------------------
(***************************************************************************)
(* The words that http/src/http_parser.c knows, as sequences of cells.     *)
(***************************************************************************)
Nums == <<"0", "1", "2", "3", "4", "5", "6", "7", "8", "9">>

\* The words, shortened.
Method == [HEAD |-> <<"H", "E">>, GET |-> <<"G", "E">>, POST |-> <<"P", "O">>,
           PUT |-> <<"P", "U", "T">>, PURGE |-> <<"P", "U", "R">>,
           CONNECT |-> <<"C", "O", "N">>, COPY |-> <<"C", "O", "P">>,
           CHECKOUT |-> <<"C", "H">>, SUBSCRIBE |-> <<"S", "U">>, SOURCE |-> <<"S", "O">>]
FirstMethod == [H |-> "HEAD", G |-> "GET", P |-> "POST", C |-> "CONNECT", S |-> "SUBSCRIBE"]
Switch == {<<"POST", 1, "U", "PUT">>, <<"PUT", 2, "R", "PURGE">>,
           <<"CONNECT", 1, "H", "CHECKOUT">>, <<"CONNECT", 2, "P", "COPY">>,
           <<"SUBSCRIBE", 1, "O", "SOURCE">>}
Word == [connection |-> <<"c", "o", "n", "e">>, proxy_connection |-> <<"p", "r">>,
         content_length |-> <<"c", "o", "t", "e">>, transfer_encoding |-> <<"t", "e">>,
         upgrade |-> <<"u", "p">>, chunked |-> <<"c", "h">>,
         keep_alive |-> <<"k", "a">>, close |-> <<"c", "l">>]
============================================================================
