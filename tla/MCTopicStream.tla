--------------------------- MODULE MCTopicStream ---------------------------
(***************************************************************************)
(* Small instance of TopicStream for TLC: pages shorter than the topic, an *)
(* old message before the start, and the intervals of the code.            *)
(***************************************************************************)
EXTENDS TopicStream
============================================================================
