----------------------------- MODULE MCWebBoard -----------------------------
(* Instance of WebBoard for TLC: two statuses, there and back.             *)
EXTENDS WebBoard

ThereAndBack == {<<"proposed", "rejected">>, <<"rejected", "proposed">>}
=============================================================================
