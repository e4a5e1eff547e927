------------------------------ MODULE MCTcpStream -----------------------------
(* TcpStream with 2-byte headers over a 4-letter alphabet.  A length of up to  *)
(* 3 leaves the first byte of a header 0, as 1 MB does in 4 bytes; the second  *)
(* may be any byte of a text.  1 and 3 are digits and 2 is an object: what is  *)
(* left of <<1, 1, 2>>, which is not JSON, may be a number or a command.       *)
EXTENDS TcpStream

MCCommands == {<<2>>}
MCJson == {<<1>>, <<3>>, <<1, 1>>, <<2>>}
MCBodies == {<<1>>, <<2>>, <<1, 1, 2>>}
=============================================================================
