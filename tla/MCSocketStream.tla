--------------------------- MODULE MCSocketStream ---------------------------
(***************************************************************************)
(* Streams of up to six octets: whole messages of no, one and three octets *)
(* with and without more behind them, and streams that end early.          *)
(***************************************************************************)
EXTENDS SocketStream

MCStreams ==
    {<<0, 0>>, <<0, 1, 7>>, <<0, 3, 7, 8, 9>>, <<0, 1, 7, 0, 1, 8>>, <<0, 0, 7>>,
     <<>>, <<0>>, <<0, 2, 7>>, <<1, 0, 7, 8>>}
=============================================================================
