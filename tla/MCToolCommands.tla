--------------------------- MODULE MCToolCommands ---------------------------
(* Commands on one device by its index and by its uid, next to those that     *)
(* delete it and add another in its place.                                    *)
EXTENDS ToolCommands

ByIndex(i) == [by |-> "index", key |-> i]
ByUid(uid) == [by |-> "uid", key |-> uid]

MCCommands ==
    [op : {"bind"}, device : {ByIndex(1)}, given : {Sides}, empty : {{}}]
      \cup [op : {"bind"}, device : {ByUid("u1")}, given : {{"source", "control"}},
            empty : {{}}]
      \cup [op : {"connect"}, device : {ByIndex(1)}, given : {{"source"}}, empty : {{}}]
      \cup [op : {"bind"}, device : {ByIndex(1)}, given : {{"repair"}}, empty : {{"repair"}}]
      \cup [op : {"disable"}, device : {ByUid("u1")}]
      \cup [op : {"delete"}, device : {ByIndex(1)}]
      \cup [op : {"show"}, device : {ByIndex(2)}]
      \cup [op : {"add receiver", "add sender", "list", "uninstall"}]
=============================================================================
