---------------------------- MODULE MCKnowledgeSync ----------------------------
(* A small instance of KnowledgeSync: a wiki and a graph, two setups, and one  *)
(* thing at most that is out of the ordinary: another branch checked out, a    *)
(* graph of another project over the same remote, an asset setup cannot see,   *)
(* or a killed process.                                                        *)
EXTENDS KnowledgeSync

CONSTANTS main, feature

One(happened) == IF happened THEN 1 ELSE 0

OtherBranch == setup.branch = feature \/ \E i \in Made("graph") \ Foreign : asset["graph"][i].branch = feature

OneComplication ==
    One(OtherBranch') + One(Made("graph")' \cap Foreign # {}) + blind' + crashes' <= 1
================================================================================
