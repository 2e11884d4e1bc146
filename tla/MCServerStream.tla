---------------------------- MODULE MCServerStream ----------------------------
(* A small instance of ServerStream for TLC: three bufferevents and two of    *)
(* three messages.  One has a byte and a check byte to be escaped, one is as  *)
(* short as a message can be, one does not fit the copy.                      *)
EXTENDS ServerStream

MCMessages == {<<3, 126>>, <<9>>, <<1, 2, 3, 4, 5, 6, 7>>}
=============================================================================
