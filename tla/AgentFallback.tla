---------------------------- MODULE AgentFallback ----------------------------
(***************************************************************************)
(* The write fallback of the server (src/agent/ and handle_agent_write of  *)
(* src/api/mod.rs): a request that the server does not implement is put    *)
(* to a language model behind an endpoint, whose reply may carry mutations *)
(* to commit.  The reply is not trusted: these operators decide which      *)
(* replies are refused, before and after the mutations are committed.      *)
(* Only operators: module WriteOperations commits what they let through.   *)
(*                                                                         *)
(* The one route with a write scope is indices.put_template, so a request  *)
(* is the legacy template it puts.  The endpoint is external: any reply is *)
(* possible, and none when it fails, times out, or sends what is too long  *)
(* or no wrapper.                                                          *)
(***************************************************************************)
EXTENDS Database, SequencesExt

CONSTANTS
    MaxToolCalls, \* bound: tool calls in a reply
    MaxProposed   \* bound: mutations in a tool call

ASSUME AgentAssumption == MaxToolCalls \in Nat /\ MaxProposed \in Nat

\* The requests of agent_write_scope: the name in the path and the JSON body.
AgentRequests ==
    [kind : {"AgentWrite"},
     object : {o \in Registry : o[1] = "legacy_template"}, body : Objects]

\* The mutation that the request calls for (example_for_indices.put_template).
Requested(request) ==
    [kind |-> "PutRegistryObject", object |-> request.object, body |-> request.body]

\* What a model may propose: the right mutation, one of another object or body,
\* one of another kind.
ProposedMutations ==
    [kind : {"PutRegistryObject"}, object : Registry \cup {<<"script", "another">>},
     body : Objects]
    \cup [kind : {"DeleteTemplate"}, template : Templates]

\* A commit_mutations call with no mutations stands for one without arguments,
\* with arguments that do not parse, or with an empty list.
ToolCalls ==
    [tool : {"inspect_catalog", "other"}, mutations : {<<>>}]
    \cup [tool : {"commit_mutations"}, mutations : SeqOf(ProposedMutations, MaxProposed)]

NoWrapper == [status |-> 0]

\* AgentResponseWrapper; the statuses are a success, an error and no HTTP status.
Wrappers ==
    [status : {200, 404, 700}, confident : BOOLEAN, readOnly : BOOLEAN,
     calls : SeqOf(ToolCalls, MaxToolCalls)]

Success(status) == status \in 200..299

ValidConfidenceAndStatus(w) == w.confident /\ w.status \in 200..599

\* Mutant: a reply that declares itself read-only is only refused afterwards.
ValidBeforeTools_NoReadOnly(w) ==
    /\ ValidConfidenceAndStatus(w)
    /\ Success(w.status) \/ w.calls = <<>>

\* validate_write_wrapper_before_tools
ValidBeforeTools(w) ==
    /\ ValidConfidenceAndStatus(w)
    /\ ~(w.readOnly /\ Success(w.status))
    /\ Success(w.status) \/ w.calls = <<>>

\* The loop of apply_tool_calls and parse_mutations: an unknown tool or an
\* empty commit refuses the reply, the reading tools do nothing.
ValidToolCalls(calls) ==
    \A i \in DOMAIN calls :
        /\ calls[i].tool # "other"
        /\ calls[i].tool = "commit_mutations" => calls[i].mutations # <<>>

AllMutations(calls) == FlattenSeq([i \in DOMAIN calls |-> calls[i].mutations])

\* validate_mutation_scope
ValidMutationScope(request, calls) ==
    LET commits == {i \in DOMAIN calls : calls[i].tool = "commit_mutations"}
    IN  \/ AllMutations(calls) = <<>>
        \/ Cardinality(commits) = 1 /\ AllMutations(calls) = <<Requested(request)>>

\* validate_wrapper_value in write mode
ValidWrapper(w, committed) ==
    /\ ~(w.readOnly /\ Success(w.status))
    /\ ~(~committed /\ ~w.readOnly /\ Success(w.status))
    /\ ValidConfidenceAndStatus(w)

\* handle_agent_write up to the commit: the reply may be acted on.
ReplyActedOn(request, w) ==
    /\ w # NoWrapper
    /\ ValidBeforeTools(w)
    /\ ValidToolCalls(w.calls)
    /\ ValidMutationScope(request, w.calls)

\* failure_response, and the answer once the commit, if any, is done.
FailureResponse == 501
AnswerStatus(w, committed) ==
    IF ValidWrapper(w, committed) THEN w.status ELSE FailureResponse
=============================================================================
