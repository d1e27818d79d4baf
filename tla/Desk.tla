--------------------------------- MODULE Desk ---------------------------------
(***************************************************************************)
(* The saved graphs and the dashboards they are placed on: the pages of    *)
(* the web interface (wui/src/routes), each with a copy of its own, and    *)
(* the settings the server keeps (PATCH /api/settings in http/app.ts).     *)
(*                                                                         *)
(* A page reads the settings when it loads, changes its copy and sends     *)
(* whole lists; nobody compares versions, so the last one wins.  Requests  *)
(* of one page may overtake each other.  A saved graph is its id and       *)
(* whether it is hidden.                                                   *)
(***************************************************************************)
EXTENDS Lists, FiniteSets, SequencesExt

CONSTANTS
  Page,    \* pages that are open
  KindsOf, \* for each page, what it may be: "dashboard", "markets", "kraken", "settings"
  Graph,   \* graphs there may be; an id is never used again
  Before,  \* what the server may hold at first: [graphs, desk]
  MaxDashboards, MaxRows, \* bounds
  MaxEdits,  \* bound: what the user does
  Absent   \* the part of a request that is left out

ASSUME DeskAssumptions ==
  /\ KindsOf \in [Page -> SUBSET {"dashboard", "markets", "kraken", "settings"}]
  /\ MaxDashboards \in Nat /\ MaxRows \in Nat /\ MaxEdits \in Nat
  /\ \A first \in Before :
       /\ first.graphs \in Seq([id : Graph, hidden : BOOLEAN])
       /\ \A i, j \in DOMAIN first.graphs : first.graphs[i].id = first.graphs[j].id => i = j
       /\ first.desk \in Seq(Seq(Seq(Graph)))
       /\ \A d \in DOMAIN first.desk : first.desk[d] # <<>>
  /\ Absent \notin Seq([id : Graph, hidden : BOOLEAN])
  /\ Absent \notin Seq(Seq(Seq(Graph)))

VARIABLES
  server,   \* [graphs, desk, version (history: how often it has changed)]
  kindOf,   \* of each page
  copy,     \* of each page: [graphs, desk, base (history: the version it agrees with)]
  coming,   \* answers to a page's load: {} or {[graphs, desk, version, raw]}
  requests, \* PATCHes: [page, number, graphs, desk, stage]
  astray,   \* history: pages whose copy holds what was not saved, or not in this order
  used,     \* graphs that have been made
  sent, edits \* counts

deskVars == <<server, kindOf, copy, coming, requests, astray, used, sent, edits>>

-----------------------------------------------------------------------------
(* Lists of graphs, and desks: dashboards of rows of ids. *)

Saved(id, hidden) == [id |-> id, hidden |-> hidden]
IdsOf(graphs) == {graphs[i].id : i \in DOMAIN graphs}
Visible(graphs) == {graphs[i].id : i \in {j \in DOMAIN graphs : ~ graphs[j].hidden}}
Places(desk) ==
  UNION {UNION {{<<d, r, i>> : i \in DOMAIN desk[d][r]} : r \in DOMAIN desk[d]} :
         d \in DOMAIN desk}
At(desk, p) == desk[p[1]][p[2]][p[3]]
Placed(desk) == {At(desk, p) : p \in Places(desk)}

Earlier(p, q) ==
  \/ p[1] < q[1]
  \/ p[1] = q[1] /\ p[2] < q[2]
  \/ p[1] = q[1] /\ p[2] = q[2] /\ p[3] < q[3]

\* The rows with what is left of each.
EachRow(desk, Left(_, _)) ==
  [d \in DOMAIN desk |-> [r \in DOMAIN desk[d] |-> Left(d, r)]]
\* Mutant: a graph that is hidden or removed keeps its place.
TakeNothing(desk, id) == desk

Take(desk, id) ==
  EachRow(desk, LAMBDA d, r : Selected(desk[d][r], Range(desk[d][r]) \ {id}))

\* Those of the graphs that stand nowhere, behind the others in the first row.
WithUnplaced(desk, graphs) ==
  [desk EXCEPT ![1][1] = @ \o Selected([i \in DOMAIN graphs |-> graphs[i].id],
                                        Visible(graphs) \ Placed(desk))]

\* There is a dashboard, if only an empty one.
Some(desk) == IF desk = <<>> THEN << << <<>> >> >> ELSE desk

\* The first place of each visible graph.
FirstPlaces(desk, graphs) ==
  {p \in Places(desk) : /\ At(desk, p) \in Visible(graphs)
                        /\ \A q \in Places(desk) : Earlier(q, p) => At(desk, q) # At(desk, p)}

\* normalizeDashboards(): each visible graph at its first place.
Normalized(desk, graphs) ==
  LET some == Some(desk)
      Kept(d, r) == Selected([i \in DOMAIN some[d][r] |-> <<d, r, i>>],
                             FirstPlaces(some, graphs))
  IN WithUnplaced(EachRow(some, LAMBDA d, r :
       [k \in DOMAIN Kept(d, r) |-> At(some, Kept(d, r)[k])]), graphs)

\* What the server makes of the dashboards when the list of graphs is saved.
Arranged(desk, graphs) ==
  LET some == Some(desk)
  IN WithUnplaced(EachRow(some, LAMBDA d, r : Selected(some[d][r], IdsOf(graphs))), graphs)

OpenPages ==
  {k \in [Page -> UNION {KindsOf[p] : p \in Page}] : \A p \in Page : k[p] \in KindsOf[p]}

Nothing == [graphs |-> <<>>, desk |-> <<>>, base |-> -1]

DeskInit ==
  /\ \E first \in Before :
       /\ server = [graphs |-> first.graphs, desk |-> first.desk, version |-> 0]
       /\ used = IdsOf(first.graphs)
  /\ kindOf \in OpenPages
  /\ copy = [p \in Page |-> Nothing] /\ coming = [p \in Page |-> {}]
  /\ requests = {} /\ astray = {} /\ sent = 0 /\ edits = 0

-----------------------------------------------------------------------------
(* A page loads. *)

Loaded(p) == copy[p].base >= 0

\* GET /api/settings; the dashboard asks again at its refresh interval.
Load(p) ==
  /\ coming[p] = {} /\ (Loaded(p) => kindOf[p] = "dashboard" /\ edits < MaxEdits)
  /\ coming' = [coming EXCEPT ![p] = {[server |-> server, raw |-> FALSE]}]
  /\ edits' = edits + (IF Loaded(p) THEN 1 ELSE 0)
  /\ UNCHANGED <<server, kindOf, copy, requests, astray, sent, used>>

\* The answer replaces the copy, whatever has been done to it meanwhile.
Arrive(p) ==
  /\ \E answer \in coming[p] :
       LET s == answer.server
       IN copy' = [copy EXCEPT ![p] =
            [graphs |-> s.graphs,
             desk |-> IF answer.raw THEN s.desk ELSE Normalized(s.desk, s.graphs),
             base |-> s.version]]
  /\ coming' = [coming EXCEPT ![p] = {}]
  /\ astray' = IF \E q \in requests : q.page = p /\ q.stage # "applied"
               THEN astray \cup {p} ELSE astray \ {p}
  /\ UNCHANGED <<server, kindOf, requests, sent, edits, used>>

-----------------------------------------------------------------------------
(* What the user does in it. *)

Editing(p, kinds) ==
  /\ Loaded(p) /\ kindOf[p] \in kinds
  /\ edits < MaxEdits /\ edits' = edits + 1

Send(p, graphs, desk) ==
  /\ sent' = sent + 1
  /\ requests' = requests \cup
       {[page |-> p, number |-> sent, graphs |-> graphs, desk |-> desk, stage |-> "sent"]}
  /\ UNCHANGED <<server, kindOf, coming, astray>>

Become(p, graphs, desk) ==
  copy' = [copy EXCEPT ![p] = [@ EXCEPT !.graphs = graphs, !.desk = desk]]

\* The dashboard page rearranges its desk.
Rearrange(p, desk) ==
  /\ Editing(p, {"dashboard"}) /\ Become(p, copy[p].graphs, desk) /\ Send(p, Absent, desk)
  /\ UNCHANGED used

\* Mutant: the graph stays where it stood as well.
MovedCopy(desk, id, d, r) == [desk EXCEPT ![d][r] = Append(@, id)]

Moved(desk, id, d, r) == [Take(desk, id) EXCEPT ![d][r] = Append(@, id)]

MoveItem(p) ==
  \E id \in Placed(copy[p].desk), d \in DOMAIN copy[p].desk :
    \E r \in DOMAIN copy[p].desk[d] : Rearrange(p, Moved(copy[p].desk, id, d, r))

\* Left and right swap neighbours.
MoveWithinRow(p) ==
  \E q \in Places(copy[p].desk) :
    LET row == copy[p].desk[q[1]][q[2]]
        i == q[3]
    IN /\ i + 1 \in DOMAIN row
       /\ Rearrange(p, [copy[p].desk EXCEPT
            ![q[1]][q[2]] = [row EXCEPT ![i] = row[i + 1], ![i + 1] = row[i]]])

AddRow(p) ==
  \E d \in DOMAIN copy[p].desk :
    /\ Len(copy[p].desk[d]) < MaxRows
    /\ Rearrange(p, [copy[p].desk EXCEPT ![d] = Append(@, <<>>)])

\* What stood in it goes behind the first row that remains.
RemoveRow(p) ==
  \E d \in DOMAIN copy[p].desk : \E r \in DOMAIN copy[p].desk[d] :
    LET rows == RemoveAt(copy[p].desk[d], r)
    IN /\ rows # <<>>
       /\ Rearrange(p, [copy[p].desk EXCEPT
                          ![d] = [rows EXCEPT ![1] = @ \o copy[p].desk[d][r]]])

AddDashboard(p) ==
  /\ Len(copy[p].desk) < MaxDashboards
  /\ Rearrange(p, Append(copy[p].desk, << <<>> >>))

RemoveDashboard(p) ==
  \E d \in DOMAIN copy[p].desk :
    LET rest == RemoveAt(copy[p].desk, d)
        removed == FlattenSeq(copy[p].desk[d])
        there == UNION {Range(rest[1][r]) : r \in DOMAIN rest[1]}
    IN /\ rest # <<>>
       /\ Rearrange(p, [rest EXCEPT
                          ![1][1] = @ \o Selected(removed, Range(removed) \ there)])

MoveDashboard(p) ==
  \E d \in DOMAIN copy[p].desk :
    /\ d + 1 \in DOMAIN copy[p].desk
    /\ Rearrange(p, [copy[p].desk EXCEPT ![d] = copy[p].desk[d + 1],
                                         ![d + 1] = copy[p].desk[d]])

Hidden(graphs, id) ==
  [i \in DOMAIN graphs |-> IF graphs[i].id = id THEN Saved(id, TRUE) ELSE graphs[i]]
Dropped(graphs, id) == Selected(graphs, {g \in Range(graphs) : g.id # id})

\* From the dashboard: hide a graph, or remove it.
HideOrRemove(p) ==
  /\ Editing(p, {"dashboard"})
  /\ \E id \in Visible(copy[p].graphs), hide \in BOOLEAN :
       LET graphs == IF hide THEN Hidden(copy[p].graphs, id) ELSE Dropped(copy[p].graphs, id)
           desk == Take(copy[p].desk, id)
       IN Become(p, graphs, desk) /\ Send(p, graphs, desk) /\ UNCHANGED used

\* A chart or a table is saved: a new graph, or, under a name that is taken, in place
\* of the one that has it.  The markets wait for the answer before they take over.
SaveGraph(p) ==
  /\ Editing(p, {"markets", "kraken"})
  /\ \E id \in Graph :
       LET graphs == IF id \in IdsOf(copy[p].graphs)
                     THEN [i \in DOMAIN copy[p].graphs |->
                             IF copy[p].graphs[i].id = id THEN Saved(id, FALSE)
                             ELSE copy[p].graphs[i]]
                     ELSE Append(copy[p].graphs, Saved(id, FALSE))
       IN /\ id \in IdsOf(copy[p].graphs) \/ id \notin used
          /\ used' = used \cup {id}
          /\ Send(p, graphs, Absent)
          /\ IF kindOf[p] = "markets" THEN UNCHANGED copy ELSE Become(p, graphs, copy[p].desk)

\* The settings page changes its copy, and saves later.
Draft(p) ==
  /\ Editing(p, {"settings"})
  /\ \E id \in IdsOf(copy[p].graphs) :
       \/ \E i \in DOMAIN copy[p].graphs :
            /\ copy[p].graphs[i].id = id
            /\ Become(p, [copy[p].graphs EXCEPT ![i].hidden = ~ @], copy[p].desk)
       \/ Become(p, Dropped(copy[p].graphs, id), Take(copy[p].desk, id))
  /\ astray' = astray \cup {p}
  /\ UNCHANGED <<server, kindOf, coming, requests, sent, used>>

SaveDraft(p) ==
  /\ Editing(p, {"settings"})
  /\ LET desk == Normalized(copy[p].desk, copy[p].graphs)
     IN Become(p, copy[p].graphs, desk) /\ Send(p, copy[p].graphs, desk) /\ UNCHANGED used

\* The other settings are saved: the answer holds the graphs too, as the server has them.
SaveSettings(p) ==
  /\ Editing(p, {"settings"}) /\ coming[p] = {}
  /\ coming' = [coming EXCEPT ![p] = {[server |-> server, raw |-> TRUE]}]
  /\ UNCHANGED <<server, kindOf, copy, requests, astray, sent, used>>

-----------------------------------------------------------------------------
(* The server. *)

Becomes(q, stage) == (requests \ {q}) \cup {[q EXCEPT !.stage = stage]}

\* With a list of graphs, the settings are read first ...
Check(q) ==
  /\ q.stage = "sent" /\ q.graphs # Absent
  /\ LET desk == Arranged(IF q.desk = Absent THEN server.desk ELSE q.desk, q.graphs)
     IN requests' = (requests \ {q}) \cup {[q EXCEPT !.stage = "checked", !.desk = desk]}
  /\ UNCHANGED <<server, kindOf, copy, coming, astray, sent, edits, used>>

\* ... and what is in the request replaces what is there.
Apply(q) ==
  /\ \/ q.stage = "checked"
     \/ q.stage = "sent" /\ q.graphs = Absent
  /\ server' = [graphs |-> IF q.graphs = Absent THEN server.graphs ELSE q.graphs,
                desk |-> q.desk, version |-> server.version + 1]
  /\ copy' = IF copy[q.page].base = server.version
             THEN [copy EXCEPT ![q.page].base = @ + 1] ELSE copy
  /\ requests' = Becomes(q, "applied")
  /\ astray' = IF \E r \in requests : r.page = q.page /\ r.number > q.number /\ r.stage = "applied"
               THEN astray \cup {q.page} ELSE astray
  /\ UNCHANGED <<kindOf, coming, sent, edits, used>>

\* The answer: the draft is saved, the markets take the list over.
Answer(q) ==
  /\ q.stage = "applied" /\ requests' = requests \ {q}
  /\ IF kindOf[q.page] = "markets" THEN Become(q.page, q.graphs, copy[q.page].desk)
     ELSE UNCHANGED copy
  /\ astray' = IF \E r \in requests : r.page = q.page /\ r.number < q.number
               THEN astray \cup {q.page} ELSE astray
  /\ UNCHANGED <<server, kindOf, coming, sent, edits, used>>

\* A request is lost, or refused: two graphs would have one name.
FailRequest(q) ==
  /\ q.stage = "sent" /\ requests' = requests \ {q}
  /\ astray' = IF kindOf[q.page] = "markets" THEN astray ELSE astray \cup {q.page}
  /\ UNCHANGED <<server, kindOf, copy, coming, sent, edits, used>>

-----------------------------------------------------------------------------

EditDashboards(p) ==
  \/ MoveItem(p) \/ MoveWithinRow(p) \/ AddRow(p) \/ RemoveRow(p) \/ AddDashboard(p)
  \/ RemoveDashboard(p) \/ MoveDashboard(p) \/ HideOrRemove(p)

DeskNext ==
  \/ \E p \in Page : Load(p) \/ Arrive(p) \/ EditDashboards(p) \/ SaveGraph(p)
                     \/ Draft(p) \/ SaveDraft(p) \/ SaveSettings(p)
  \/ \E q \in requests : Check(q) \/ Apply(q) \/ Answer(q) \/ FailRequest(q)

DeskSpec == DeskInit /\ [][DeskNext]_deskVars

-----------------------------------------------------------------------------
(* Properties. *)

\* A dashboard page shows every graph it knows and that is not hidden, once, and nothing
\* else, whatever other pages have done and whatever was lost.
ShownOnce ==
  \A p \in Page : kindOf[p] = "dashboard" /\ Loaded(p) =>
    LET desk == copy[p].desk
    IN /\ Placed(desk) = Visible(copy[p].graphs)
       /\ \A q, r \in Places(desk) : At(desk, q) = At(desk, r) => q = r

Still(p) ==
  /\ Loaded(p) /\ p \notin astray /\ copy[p].base = server.version
  /\ \A q \in requests : q.page # p

\* Once its requests are answered, and if nobody else has saved anything, a reload of a
\* page changes nothing: what the page made of its copy and what the server made of the
\* request are the same.
ReloadAgrees ==
  \A p \in Page : Still(p) =>
    /\ copy[p].graphs = server.graphs
    /\ kindOf[p] = "dashboard" => copy[p].desk = Normalized(server.desk, server.graphs)

\* Both: a dashboard page shows what it knows just once, and the page, what it asked for
\* and what the server stored agree as soon as nothing is under way.
DeskTrue == ShownOnce /\ ReloadAgrees
=============================================================================
