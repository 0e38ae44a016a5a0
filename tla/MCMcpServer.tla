---------------------------- MODULE MCMcpServer ----------------------------
(* Clients that cancel and call again, that use an id twice, that begin a    *)
(* legacy session, that ask more than the queue has room for.                *)
EXTENDS McpServer

Line(kind, id, target, modern) ==
    [kind |-> kind, id |-> id, target |-> target, modern |-> modern]
Tool(id) == Line("tool", id, NoId, TRUE)
Cancel(id) == Line("cancel", NoId, id, FALSE)
MCScripts ==
    {<<Tool("1"), Cancel("1"), Tool("1")>>,
     <<Line("list", "1", NoId, TRUE), Tool("1"), Line("note", "2", NoId, TRUE)>>,
     <<Line("initialize", "1", NoId, FALSE), Line("initialized", NoId, NoId, FALSE),
       Line("ping", "2", NoId, FALSE)>>}
=============================================================================
