----------------------------- MODULE MCCollectors -----------------------------
(***************************************************************************)
(* The Jenkins collector has the longest run and the plugin's posts beside *)
(* it: one request more or less decides whether TLC gets through.          *)
(***************************************************************************)
EXTENDS Collectors

MCMaxEdits == [k \in Kinds |-> IF k = "Hudson" THEN 1 ELSE 2]

==============================================================================
