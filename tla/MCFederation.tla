---------------------------- MODULE MCFederation ----------------------------
(* Acme dials globex; a task and a request go over, and a question for an  *)
(* identity comes back.                                                    *)
EXTENDS Federation

Beginners == [x \in Exchanges |-> IF x = "who" THEN "globex" ELSE "acme"]
Kinds4 == [x \in Exchanges |-> CASE x = "job" -> "task"
                                 [] x = "who" -> "who_is"
                                 [] OTHER -> "request"]
=============================================================================
