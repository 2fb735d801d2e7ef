--------------------------- MODULE MCJobPipeline ---------------------------
EXTENDS JobPipeline

MCThreadOf == [j \in Jobs |-> "t1"]
\* The name of a job says its task type.
MCKindOf ==
  [j \in Jobs |-> CASE j = "chat" -> "langgraph"
                    [] j = "talk" -> "debate"
                    [] j = "rpc"  -> "iframe_app_api"
                    [] OTHER      -> "unregistered"]
\* Two tokens per attempt show a token pushed between any two reads; one turn
\* per attempt and a second delivery show a turn list that grows again.
MCMaxChunks == [j \in Jobs |-> IF j = "chat" THEN 2 ELSE 1]
=============================================================================
