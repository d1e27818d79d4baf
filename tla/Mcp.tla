---------------------------------- MODULE Mcp ----------------------------------
(***************************************************************************)
(* The MCP sidecar (mcp/src): tool calls of named clients, the windows     *)
(* that limit them, the requests they become (api-client.ts), and the      *)
(* history of the mutations, a file that is read and written whole for     *)
(* every entry, one after the other (history.ts).                          *)
(*                                                                         *)
(* A handler runs without a pause up to its first request or its first     *)
(* entry; what it then waits for may be answered, fail, or never come.     *)
(***************************************************************************)
EXTENDS Integers, Sequences, SequencesExt, FiniteSets

CONSTANTS
  Client,     \* named keys
  Writers,    \* those whose role is readwrite
  Called,     \* bound: the tools that are called
  MaxCalls,   \* bound: tool calls
  CallLimit,  \* calls of a category in one window
  MaxEntries, \* entries that the history keeps
  MaxFaults   \* bound: requests, reads and writes that fail, ends of the process

ASSUME McpAssumptions ==
  /\ Writers \subseteq Client
  /\ Called \subseteq {"read", "download", "search", "write", "destructive", "unlisted"}
  /\ MaxCalls \in Nat /\ CallLimit \in Nat \ {0} /\ MaxEntries \in Nat \ {0}
  /\ MaxFaults \in Nat

VARIABLES
  readOnly, \* the configuration: no tool that mutates
  windows,  \* calls of the present window, by client and category
  calls,    \* the calls under way
  audits,   \* the entries that wait for their turn, the first at work
  log,      \* the file of the history: entries, the oldest first
  made,     \* history: how often the mutation of each call was made upstream
  told,     \* history: the entries whose calls have been answered and that were written
  forgot,   \* history: the file could not be read when it was written again
  called, faults \* counts for the bounds

mcpVars == <<readOnly, windows, calls, audits, log, made, told, forgot, called, faults>>

Category(tool) == IF tool \in {"write", "destructive"} THEN tool ELSE "read"

McpInit ==
  /\ readOnly \in BOOLEAN
  /\ windows = [client \in Client, category \in {"read", "write", "destructive"} |-> 0]
  /\ calls = {} /\ audits = <<>> /\ log = <<>>
  /\ made = [n \in 1 .. MaxCalls |-> 0] /\ told = <<>> /\ forgot = FALSE
  /\ called = 0 /\ faults = 0

Fault == faults < MaxFaults /\ faults' = faults + 1

-----------------------------------------------------------------------------
(* A call. *)

\* The tools that a client is offered.
Offered(client) ==
  {"read", "search"} \cup
  (IF client \in Writers THEN {"download"} ELSE {}) \cup
  (IF client \in Writers /\ ~ readOnly THEN {"write", "destructive", "unlisted"} ELSE {})

\* What becomes of a call before anything is asked upstream.  A mutation that is not
\* listed is rejected before it counts.
Verdict(tool, apply, confirm, count) ==
  IF tool = "unlisted" THEN "rejected"
  ELSE IF count > CallLimit THEN "rate_limited"
  ELSE IF tool \in {"download", "destructive"} /\ ~ confirm THEN "confirmation_required"
  ELSE IF tool \in {"write", "destructive"} /\ ~ apply THEN "planned"
  ELSE "requested"

Mutates(tool) == tool \in {"write", "destructive", "unlisted"}

Entry(n, result) == [call |-> n, result |-> result, applied |-> result = "succeeded"]
Ask(n, tool, at) == [call |-> n, tool |-> tool, at |-> at, try |-> 1, entries |-> <<>>,
                     behind |-> Range(audits)]

\* The window may be over; then check() begins the next.
CallTool(client) ==
  /\ called < MaxCalls /\ called' = called + 1
  /\ \E tool \in Called \cap Offered(client), apply, confirm, over \in BOOLEAN :
       /\ tool \in {"read", "search", "unlisted"} => ~ apply /\ ~ confirm
       /\ tool = "write" => ~ confirm
       /\ tool = "download" => ~ apply
       /\ LET key == <<client, Category(tool)>>
              count == (IF over THEN 0 ELSE windows[key]) + 1
              verdict == Verdict(tool, apply, confirm, count)
              answered == verdict # "requested"
          IN /\ windows' = IF tool = "unlisted" THEN windows
                           ELSE [windows EXCEPT ![key] = count]
             /\ audits' = IF answered /\ Mutates(tool)
                          THEN Append(audits, Entry(called', verdict)) ELSE audits
             /\ calls' = calls \cup
                  (IF ~ answered
                   THEN {Ask(called', tool, IF tool = "search" THEN "searching"
                                           ELSE "requesting")}
                   ELSE IF Mutates(tool) THEN {Ask(called', tool, "auditing")} ELSE {})
  /\ UNCHANGED <<readOnly, log, made, told, forgot, faults>>

-----------------------------------------------------------------------------
(* Its request. *)

\* Mutant: what mutates is tried again as well.
TriesOfAll(tool) == 2

Tries(tool) == IF Mutates(tool) THEN 1 ELSE 2

\* A mutation is recorded before its call is answered.
Requested(c, result) ==
  IF Mutates(c.tool)
  THEN /\ audits' = Append(audits, Entry(c.call, result))
       /\ calls' = (calls \ {c}) \cup {[c EXCEPT !.at = "auditing"]}
  ELSE calls' = calls \ {c} /\ UNCHANGED audits

Makes(c) == made' = [made EXCEPT ![c.call] = IF Mutates(c.tool) THEN @ + 1 ELSE @]

Answered(c) ==
  /\ c.at = "requesting" /\ Makes(c) /\ Requested(c, "succeeded")
  /\ UNCHANGED <<readOnly, windows, log, told, forgot, called, faults>>

RequestRefused(c) ==
  /\ c.at = "requesting" /\ Fault /\ Requested(c, "failed")
  /\ UNCHANGED <<readOnly, windows, log, made, told, forgot, called>>

\* No connection, or no answer in time: the mutation may have been made.
UpstreamFails(c) ==
  /\ c.at = "requesting" /\ Fault /\ (Makes(c) \/ UNCHANGED made)
  /\ IF c.try < Tries(c.tool)
     THEN calls' = (calls \ {c}) \cup {[c EXCEPT !.try = @ + 1]} /\ UNCHANGED audits
     ELSE Requested(c, "failed")
  /\ UNCHANGED <<readOnly, windows, log, told, forgot, called>>

\* The connection closes while the answer is on its way: nobody listens for that, and the
\* call waits for ever.
AnswerCut(c) ==
  /\ c.at = "requesting" /\ Fault /\ Makes(c)
  /\ calls' = (calls \ {c}) \cup {[c EXCEPT !.at = "hung"]}
  /\ UNCHANGED <<readOnly, windows, audits, log, told, forgot, called>>

-----------------------------------------------------------------------------
(* The history. *)

Position(c) == CHOOSE i \in DOMAIN audits : audits[i].call = c.call
EntryOf(c) == audits[Position(c)]

\* Mutant: entries do not wait for each other.
AnyTurn(c) == TRUE

Turn(c) == Position(c) = 1

\* A file that cannot be read counts as an empty one.
AuditRead(c) ==
  /\ c.at = "auditing" /\ Turn(c)
  /\ \/ /\ calls' = (calls \ {c}) \cup {[c EXCEPT !.at = "storing", !.entries = log]}
        /\ UNCHANGED <<forgot, faults>>
     \/ /\ calls' = (calls \ {c}) \cup {[c EXCEPT !.at = "storing"]}
        /\ forgot' = TRUE /\ Fault
  /\ UNCHANGED <<readOnly, windows, audits, log, made, told, called>>

Latest(entries) ==
  SubSeq(entries, IF Len(entries) > MaxEntries THEN Len(entries) - MaxEntries + 1 ELSE 1,
         Len(entries))

\* The file is replaced, or stays as it is and the error is logged; the next entry has
\* its turn and the call is answered.
AuditStore(c) ==
  /\ c.at = "storing"
  /\ \/ /\ log' = Latest(Append(c.entries, EntryOf(c))) /\ told' = Append(told, EntryOf(c))
        /\ UNCHANGED faults
     \/ Fault /\ UNCHANGED <<log, told>>
  /\ audits' = RemoveAt(audits, Position(c)) /\ calls' = calls \ {c}
  /\ UNCHANGED <<readOnly, windows, made, forgot, called>>

\* A search waits for the entries that were there before it.
Search(c) ==
  /\ c.at = "searching" /\ c.behind \cap Range(audits) = {} /\ calls' = calls \ {c}
  /\ UNCHANGED <<readOnly, windows, audits, log, made, told, forgot, called, faults>>

\* The process is killed, or shuts down when its clients are gone: calls that nobody
\* waits for any longer go with it.
ProcessEnds ==
  /\ Fault /\ calls # {} /\ calls' = {} /\ audits' = <<>>
  /\ windows' = [key \in DOMAIN windows |-> 0]
  /\ UNCHANGED <<readOnly, log, made, told, forgot, called>>

-----------------------------------------------------------------------------

McpNext ==
  \/ \E client \in Client : CallTool(client)
  \/ \E c \in calls : \/ Answered(c) \/ RequestRefused(c) \/ UpstreamFails(c) \/ AnswerCut(c)
                      \/ AuditRead(c) \/ AuditStore(c) \/ Search(c)
  \/ ProcessEnds

-----------------------------------------------------------------------------
(* Properties. *)

\* No mutation is made twice for one call, however its request fails; what the history
\* shows as applied was made, and what it shows as planned, rejected, limited or not
\* confirmed was not (docs/operations.md:37).  One that failed may have been made.  And
\* the history has the entries of the calls that were answered, in their order and up to
\* the number that it keeps, whichever calls were under way at once and whenever the
\* process ended ("Dry-run and applied MCP writes are recorded", docs/operations.md:37);
\* a file that could not be read once is lost with the next entry.
HistoryTrue ==
  /\ \A n \in 1 .. MaxCalls : made[n] <= 1
  /\ \A e \in Range(log) :
       /\ e.applied => made[e.call] = 1
       /\ e.result \notin {"succeeded", "failed"} => made[e.call] = 0
  /\ forgot \/ log = Latest(told)
=============================================================================
