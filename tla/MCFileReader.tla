---------------------------- MODULE MCFileReader ----------------------------
(***************************************************************************)
(* A file with up to three bytes that shrinks, grows and changes.          *)
(***************************************************************************)
EXTENDS FileReader

MCContents == {<<>>, <<1>>, <<2, 1>>, <<1, 1, 2>>}
=============================================================================
