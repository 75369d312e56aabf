----------------------------- MODULE DbRetryMC -----------------------------
EXTENDS DbRetry, TLC
Insert == <<"add", "flush", "commit">>
Update == <<"query", "commit">>
Writes == ("insert" :> Insert) @@ ("update" :> Update) @@ ("bare" :> Insert) @@ ("bareUpdate" :> Update)
=============================================================================
