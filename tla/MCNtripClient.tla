---------------------------- MODULE MCNtripClient ----------------------------
(***************************************************************************)
(* Answers of casters of both protocol versions that have the mount, of    *)
(* one that has not (a sourcetable), an error page, and headers that end   *)
(* early: before the status line, in the middle of the fields.             *)
(***************************************************************************)
EXTENDS NtripClient

MCGoodAnswers == {<<"ICY 200">>, <<"ICY 200", "blank">>, <<"HTTP/1 200", "field", "blank">>}
MCAnswers == MCGoodAnswers \cup
  {<<>>, <<"HTTP/1 200", "field">>, <<"HTTP/1 404", "field", "blank", "body">>,
   <<"SOURCETABLE 200", "field", "blank", "body">>}
=============================================================================
