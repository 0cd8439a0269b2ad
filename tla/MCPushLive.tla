----------------------------- MODULE MCPushLive -----------------------------
EXTENDS PushAudit

CONSTANTS alice, bob

MCPath    == {<<"a">>}
MCPattern == {<<Wildcard>>}
=============================================================================
