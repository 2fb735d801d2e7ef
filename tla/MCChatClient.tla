---------------------------- MODULE MCChatClient ----------------------------
EXTENDS ChatClient

\* Only the debate is delivered again.
MCMaxTries == [j \in Jobs |-> IF j \in Debates THEN 2 ELSE 1]
=============================================================================
