------------------------- MODULE MCWorkbookAssembly -------------------------
(* Two topics, tasks without a topic, with one, or with both.  Theory on   *)
(* each topic, one to a topic; or also theory on both, and one that names  *)
(* its topic twice, which CreateTheory does not prevent and which may then *)
(* outscore the theory on both.                                            *)
EXTENDS WorkbookAssembly
CONSTANTS A, B

TopicListValues == {<<>>, <<A>>, <<B>>, <<A, B>>}
OneEach == <<<<A>>, <<B>>>>
Overlapping == <<<<A, A>>, <<B>>, <<A, B>>>>
=============================================================================
