----------------------------- MODULE McpRouting -----------------------------
(***************************************************************************)
(* internal/mcp: the routing wrapper around the tool handlers of the       *)
(* command `mcp`, on top of the routing of the command line that started   *)
(* the server.  A call for another quarter goes to a child server, which   *)
(* is the sibling binary started with the one argument "mcp" and routes    *)
(* by its own quarter in turn.                                             *)
(*                                                                         *)
(* The pool that keeps children warm is PoolRouter; here every forwarded   *)
(* call starts a child, so that it meets the disk as it is then.           *)
(***************************************************************************)
EXTENDS VersionRoute

VARIABLES
  servers,   \* the server and the chain of children below it
  call,      \* the tool call in progress
  child      \* the path a child is about to be started from

mcpVars == <<servers, call, child>>
vars == <<routeVars, mcpVars>>

Server == [image : [path : Paths, bin : Binary], default : Value]
Outcomes == {"local", "toolError", "failed"}
Call == [stage : {"idle", "routing", "spawning"} \cup Outcomes, param : Value]

McpInit == /\ servers = <<>>
           /\ call = [stage |-> "idle", param |-> EmptyValue]
           /\ child = NoPath

\* The server the call has got to.
Here == servers[Len(servers)]

-----------------------------------------------------------------------------

\* The command is `mcp`: a server whose default is the value of the flag.
Serve ==
  /\ phase = "command"
  /\ servers = <<>>
  /\ servers' = <<[image |-> image, default |-> FlagValue(argv)]>>
  /\ UNCHANGED <<routeVars, call, child>>

\* A tool call; without target_version, or with an empty one, param is empty.
Receive(v) ==
  /\ Len(servers) = 1
  /\ call.stage = "idle"
  /\ call' = [stage |-> "routing", param |-> v]
  /\ UNCHANGED <<routeVars, servers, child>>

\* Variant of Target: the server's default wins over the argument.
TargetDefaultFirst(s) == IF s.default # EmptyValue THEN s.default ELSE call.param

\* ResolveTargetVersion: the argument wins over the server's default.
Target(s) == IF call.param # EmptyValue THEN call.param ELSE s.default

BadParam == call.param # EmptyValue /\ ~ValidTarget(call.param)

\* Variant of Forwards: without the comparison with the server's own quarter.
ForwardsAlways(s) ==
  /\ ParseFromTarget(Target(s)) # Unknown
  /\ Built(s.image) # Unknown

\* routeTarget: only a server that knows its own quarter forwards.
Forwards(s) ==
  /\ ParseFromTarget(Target(s)) # Unknown
  /\ Built(s.image) # Unknown
  /\ Built(s.image) # ParseFromTarget(Target(s))

RejectParam ==
  /\ call.stage = "routing"
  /\ BadParam
  /\ call' = [call EXCEPT !.stage = "toolError"]
  /\ UNCHANGED <<routeVars, servers, child>>

AnswerHere ==
  /\ call.stage = "routing"
  /\ ~BadParam
  /\ ~Forwards(Here)
  /\ call' = [call EXCEPT !.stage = "local"]
  /\ UNCHANGED <<routeVars, servers, child>>

Dispatch ==
  /\ call.stage = "routing"
  /\ ~BadParam
  /\ Forwards(Here)
  /\ LET path == FindBackend(Here.image, ParseFromTarget(Target(Here)))
     IN IF path = NoPath
          THEN call' = [call EXCEPT !.stage = "toolError"] /\ UNCHANGED child
          ELSE call' = [call EXCEPT !.stage = "spawning"] /\ child' = path
  /\ UNCHANGED <<routeVars, servers>>

\* The child starts as "crdb-sql-vXXX mcp": its own MaybeReexec finds no flag,
\* and it has no default.  The request is forwarded as it came.
Spawn ==
  /\ call.stage = "spawning"
  /\ IsExecutable(child)
  /\ servers' = Append(servers, [image |-> ImageAt(child), default |-> EmptyValue])
  /\ call' = [call EXCEPT !.stage = "routing"]
  /\ child' = NoPath
  /\ UNCHANGED routeVars

\* Variant of SpawnFails: only a child that is there can fail.
SpawnFailsLate ==
  /\ call.stage = "spawning"
  /\ IsExecutable(child)
  /\ call' = [call EXCEPT !.stage = "failed"]
  /\ child' = NoPath
  /\ UNCHANGED <<routeVars, servers>>

\* The file is gone, the child dies or its handshake times out.
SpawnFails ==
  /\ call.stage = "spawning"
  /\ call' = [call EXCEPT !.stage = "failed"]
  /\ child' = NoPath
  /\ UNCHANGED <<routeVars, servers>>

\* The reply travels back; the next call starts at the server again.
Reply ==
  /\ call.stage \in Outcomes
  /\ call' = [stage |-> "idle", param |-> EmptyValue]
  /\ servers' = <<servers[1]>>
  /\ UNCHANGED <<routeVars, child>>

McpStep == RejectParam \/ AnswerHere \/ Dispatch \/ Spawn \/ SpawnFails \/ Reply

CONSTANT Params   \* target_version arguments of tool calls

ASSUME ParamsAssumption == Params \subseteq Value

Init == RouteInit /\ McpInit
Next == \/ RouteNext /\ UNCHANGED mcpVars
        \/ Serve
        \/ \E v \in Params : Receive(v)
        \/ McpStep

\* Processes run and a spawn ends; clients and the packager need not do anything.
Spec == /\ Init /\ [][Next]_vars
        /\ WF_vars(Main /\ UNCHANGED mcpVars)
        /\ WF_vars(McpStep)

-----------------------------------------------------------------------------
(* Properties. *)

TypeOK ==
  /\ disk \in [Paths -> Node]
  /\ changes \in 0 .. MaxChanges
  /\ image \in [path : Paths, bin : Binary]
  /\ argv \in Seq(Token)
  /\ phase \in {"main", "exec", "flags", "command", "usage", "exit"}
  /\ next \in Paths \cup {NoPath}
  /\ execs \in 0 .. 2
  /\ servers \in Seq(Server)
  /\ call \in Call
  /\ child \in Paths \cup {NoPath}
  /\ (next # NoPath) <=> (phase = "exec")
  /\ (child # NoPath) <=> (call.stage = "spawning")
  /\ call.stage # "idle" => servers # <<>>

\* The parser that answers a call is the one of the quarter the call, or else
\* the server's --target-version, asks for, if the server knows its own
\* quarter; the argument of the call counts wherever the call has got to.
AnswerFromQuarter ==
  call.stage = "local" /\ Built(servers[1].image) # Unknown =>
    LET asked == IF call.param # EmptyValue THEN call.param ELSE servers[1].default
    IN asked.form = "plain" => Here.image.bin.parser = asked.q

\* A call is forwarded once at most: a child never passes it on.
OneHop == Len(servers) <= 2

\* Every call ends in an answer or an error.
CallEnds == call.stage = "routing" ~> call.stage \in Outcomes

=============================================================================
