--------------------------- MODULE MCSampleTool ---------------------------
(* Instances of SampleTool for TLC: a text and three documents with about  *)
(* the sizes of the real ones, so that of the targets one is too small for *)
(* all documents but one.  Two files are there before: the name of one is  *)
(* not drawn; the other is in a directory that Glob does not list, and may *)
(* be replaced.                                                            *)
EXTENDS SampleTool

Format(base, line, adds) == [base |-> base, line |-> line, adds |-> adds]

MCFormats == [md   |-> Format(400, 0, 0),
              pdf  |-> Format(900, 80, 9),
              docx |-> Format(3900, 180, 59),
              xlsx |-> Format(7000, 120, 404)]
MCNames  == {"a", "b"}
MCOnDisk == {<<"a", "md">>, <<"b", "pdf">>}
MCListed == {"a"}
===========================================================================
