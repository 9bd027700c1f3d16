---------------------------- MODULE MCHttpClient ----------------------------
(* Instances of HttpClient: a complete response that fits BUF, one that is *)
(* longer, one without a blank line, and none at all.                      *)
EXTENDS HttpClient

Complete == <<"status", Nl, Nl, "body">>
TooLong  == <<"status", Nl, "header", Nl, Nl, "body">>
Cut      == <<"status", Nl>>
AllResponses == {Complete, TooLong, Cut, <<>>}
=============================================================================
