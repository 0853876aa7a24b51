------------------------------ MODULE MCLedger ------------------------------
(* The ledger and its page, with five traces and a few answers. *)
EXTENDS LiveView, TLC

CONSTANTS t1, t2, t3, t4, t5

AnswerList ==
  << [way |-> "forwarded", tag |-> "unclosed", calls |-> <<"object", "null_arg">>, reason |-> "length"],
     [way |-> "bridged", tag |-> "closed", calls |-> <<"not_object", "object">>, reason |-> "length"],
     [way |-> "forwarded", tag |-> "closed", calls |-> <<"invalid", "absent">>, reason |-> "stop"],
     [way |-> "translated", tag |-> "unclosed", calls |-> <<"null_arg">>, reason |-> "length"],
     [way |-> "forwarded", tag |-> "none", calls |-> <<"null_arg", "null_arg">>, reason |-> "stop"] >>

FewAnswers == {AnswerList[i] : i \in 1..5}
EachAnswer == (t1 :> AnswerList[1]) @@ (t2 :> AnswerList[2]) @@ (t3 :> AnswerList[3])
              @@ (t4 :> AnswerList[4]) @@ (t5 :> AnswerList[5])
=============================================================================
