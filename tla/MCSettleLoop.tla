---------------------------- MODULE MCSettleLoop ----------------------------
(* Three requests and three offers of two task types. *)
EXTENDS SettleLoop

MCRequests == {"q1", "q2", "q3"}
MCOffers   == {<<"js", 1>>, <<"js", 2>>, <<"py", 1>>}
MCTypeOf   == [x \in MCRequests \cup {"js", "py"} |->
                 IF x \in {"q1", "q2", "js"} THEN "javascript" ELSE "python"]
=============================================================================
