---------------------------- MODULE GraphFolders ----------------------------
(***************************************************************************)
(* Listing the folders of a Microsoft account, and the attachments of a    *)
(* message, over pages the server chooses.                                 *)
(*                                                                         *)
(* The folders form a tree; the children of a folder are a collection that *)
(* is served in pages, and a page names the next one.  A listing visits    *)
(* the collections breadth first, refuses to visit a page twice or to      *)
(* leave a collection by such a link, and stops at a limit.  The           *)
(* well-known folders are asked for by name once; the provider remembers   *)
(* their roles.  Several requests list at a time over one provider, and    *)
(* with one source of access tokens, and the user may move a folder while  *)
(* they do.                                                                *)
(***************************************************************************)
EXTENDS Integers, Sequences, FiniteSets, Functions

CONSTANTS
    Lister,                 \* requests that list folders or attachments
    GraphFolder,            \* the account's folders
    AttachmentCount,        \* attachments of the message
    MAX_GRAPH_FOLDER_PAGES,
    MAX_GRAPH_FOLDERS,
    MAX_GRAPH_ATTACHMENT_PAGES,
    MAX_MIME_ATTACHMENTS,
    MaxOddities             \* bound: failed requests, odd links, moved folders

Root == "root"
Attachments == "attachments"

\* Ids of folders are strings, attachments are numbered.
ASSUME FolderAssumption ==
    /\ IsFiniteSet(GraphFolder)
    /\ GraphFolder \cap {Root, Attachments} = {}
    /\ \A f \in GraphFolder : f \notin Nat
    /\ {MAX_GRAPH_FOLDER_PAGES, MAX_GRAPH_FOLDERS} \subseteq Nat
    /\ {MAX_GRAPH_ATTACHMENT_PAGES, MAX_MIME_ATTACHMENTS} \subseteq Nat
    /\ {AttachmentCount, MaxOddities} \subseteq Nat

VARIABLES
    parentOf,       \* the server's folder tree (external)
    hidden,         \* the folders it hides (external)
    wellKnown,      \* the folders that have a well-known name (external)
    listing,        \* what each request is doing
    roleIds,        \* MicrosoftGraphProvider.role_ids: empty, or what is known
    oddities

folderVars == <<parentOf, hidden, wellKnown, listing, roleIds, oddities>>
-----------------------------------------------------------------------------
(* The server (external)                                                   *)

\* Going up from a folder one comes to the root: no folders hold one another.
IsTree(parents) ==
    \A S \in SUBSET GraphFolder : (\A f \in S : parents[f] \in S) => S = {}

\* A hidden folder is not served, and so neither is what is in it.
Visible ==
    UNION {S \in SUBSET (GraphFolder \ hidden) : \A f \in S : parentOf[f] \in S \cup {Root}}

Children(of) == {f \in GraphFolder : parentOf[f] = of /\ f \notin hidden}

Rank == CHOOSE rank \in [GraphFolder -> 1..Cardinality(GraphFolder)] : IsInjective(rank)

\* A page of a collection holds one item.
Url == [of : GraphFolder \cup {Root, Attachments}, page : Nat]

FirstPage(of) == [of |-> of, page |-> 1]

Length(of) == IF of = Attachments THEN AttachmentCount ELSE Cardinality(Children(of))

Place(f, of) == Cardinality({g \in Children(of) : Rank[g] <= Rank[f]})

Served(url) ==
    IF url.of = Attachments
    THEN IF url.page <= AttachmentCount THEN <<url.page>> ELSE <<>>
    ELSE LET here == {f \in Children(url.of) : Place(f, url.of) = url.page}
         IN  IF here = {} THEN <<>> ELSE <<CHOOSE f \in here : TRUE>>

NextPage(url) == [url EXCEPT !.page = @ + 1]

\* The link a page should have, none on the last; and the odd ones: back to the
\* start, to itself, to another collection, on past the end.
GoodLink(url) == IF url.page < Length(url.of) THEN <<NextPage(url)>> ELSE <<>>

OddLinks(url) ==
    {<<FirstPage(url.of)>>, <<url>>, <<FirstPage(IF url.of = Root THEN Attachments ELSE Root)>>}
        \cup (IF GoodLink(url) = <<>> THEN {<<NextPage(url)>>} ELSE {})

-----------------------------------------------------------------------------
Walking ==
    [pc : {"pages", "roles", "well_known"}, pending : Seq(Url), seen : SUBSET Url,
     found : Seq(GraphFolder \cup Nat), disturbed : BOOLEAN]

Ended ==
    [pc : {"listed"}, found : Seq(GraphFolder), roles : SUBSET GraphFolder, disturbed : BOOLEAN]
        \cup [pc : {"attached"}, found : Seq(Nat)]

FolderTypeOK ==
    /\ parentOf \in [GraphFolder -> GraphFolder \cup {Root}]
    /\ IsTree(parentOf)
    /\ hidden \subseteq GraphFolder
    /\ wellKnown \subseteq GraphFolder
    /\ listing \in [Lister -> [pc : {"idle", "hung", "failed"}] \cup Walking \cup Ended]
    /\ roleIds \subseteq SUBSET GraphFolder /\ Cardinality(roleIds) <= 1
    /\ oddities \in 0..MaxOddities

FolderInit ==
    /\ parentOf \in {p \in [GraphFolder -> GraphFolder \cup {Root}] : IsTree(p)}
    /\ hidden \in SUBSET GraphFolder
    /\ wellKnown \in SUBSET GraphFolder
    /\ listing = [l \in Lister |-> [pc |-> "idle"]]
    /\ roleIds = {}
    /\ oddities = 0

Odd == oddities < MaxOddities /\ oddities' = oddities + 1

-----------------------------------------------------------------------------
(* A listing                                                               *)

StartListing(l, of) ==
    /\ listing[l].pc = "idle"
    /\ listing' = [listing EXCEPT ![l] =
                     [pc |-> "pages", pending |-> <<FirstPage(of)>>, seen |-> {},
                      found |-> <<>>, disturbed |-> FALSE]]
    /\ UNCHANGED <<parentOf, hidden, wellKnown, roleIds, oddities>>

Fails(l) == listing' = [listing EXCEPT ![l] = [pc |-> "failed"]]

MaxPages(of) == IF of = Attachments THEN MAX_GRAPH_ATTACHMENT_PAGES ELSE MAX_GRAPH_FOLDER_PAGES

MaxItems(of) == IF of = Attachments THEN MAX_MIME_ATTACHMENTS ELSE MAX_GRAPH_FOLDERS

\* RepeatedContinuation and PageLimitExceeded.
Unvisitable(walk) ==
    \/ Head(walk.pending) \in walk.seen
    \/ Cardinality(walk.seen) = MaxPages(Head(walk.pending).of)

\* validate_next_url: a link stays in its collection and goes elsewhere.
Follows(link, url) == link = <<>> \/ (link[1].of = url.of /\ link[1] # url)

\* The collections to visit after a page: those of its folders that have children,
\* hidden ones counted, then the rest of its own.
Below(items) ==
    IF \E f \in GraphFolder : items = <<f>> /\ f \in {parentOf[g] : g \in GraphFolder}
    THEN <<FirstPage(items[1])>> ELSE <<>>

\* Mutant of Unmet: it is.
UnmetOrMet(items, found) == items

\* A folder that is met again is not listed again.
Unmet(items, found) ==
    IF items # <<>> /\ items[1] \in GraphFolder /\ items[1] \in Range(found) THEN <<>> ELSE items

Visited(walk, link) ==
    LET url == Head(walk.pending)
        items == Served(url)
    IN  [walk EXCEPT !.pending = Tail(@) \o Below(items) \o link,
                     !.seen = @ \cup {url},
                     !.found = @ \o Unmet(items, walk.found)]

\* Nobody keeps the mutex of the token cache, which every request takes first.
TokenFree == \A k \in Lister : listing[k].pc # "hung"

VisitPage(l) ==
    /\ listing[l].pc = "pages"
    /\ TokenFree
    /\ listing[l].pending # <<>>
    /\ ~Unvisitable(listing[l])
    /\ LET url == Head(listing[l].pending) IN
       \E link \in {GoodLink(url)} \cup OddLinks(url) :
         /\ IF link = GoodLink(url) THEN UNCHANGED oddities ELSE Odd
         /\ IF Follows(link, url) /\ Len(Visited(listing[l], link).found) <= MaxItems(url.of)
            THEN listing' = [listing EXCEPT ![l] = Visited(@, link)]
            ELSE Fails(l)
    /\ UNCHANGED <<parentOf, hidden, wellKnown, roleIds>>

RefuseVisit(l) ==
    /\ listing[l].pc = "pages"
    /\ listing[l].pending # <<>>
    /\ Unvisitable(listing[l])
    /\ Fails(l)
    /\ UNCHANGED <<parentOf, hidden, wellKnown, roleIds, oddities>>

\* Nothing is left to visit.
EndPages(l) ==
    /\ listing[l].pc = "pages"
    /\ listing[l].pending = <<>>
    /\ listing' = [listing EXCEPT ![l] =
                     IF FirstPage(Attachments) \in @.seen
                     THEN [pc |-> "attached", found |-> @.found]
                     ELSE [@ EXCEPT !.pc = "roles"]]
    /\ UNCHANGED <<parentOf, hidden, wellKnown, roleIds, oddities>>

Listed(walk, found, roles) ==
    [pc |-> "listed", found |-> found, roles |-> roles, disturbed |-> walk.disturbed]

ReadRoles(l) ==
    /\ listing[l].pc = "roles"
    /\ listing' = [listing EXCEPT ![l] =
                     IF roleIds = {} THEN [@ EXCEPT !.pc = "well_known"]
                     ELSE Listed(@, @.found, UNION roleIds)]
    /\ UNCHANGED <<parentOf, hidden, wellKnown, roleIds, oddities>>

\* The well-known folders that were not met are appended, hidden or not.
WithWellKnown(found) ==
    LET missing == wellKnown \ Range(found)
        order == CHOOSE s \in [1..Cardinality(missing) -> missing] : IsInjective(s)
    IN  found \o order

AskWellKnown(l) ==
    /\ listing[l].pc = "well_known"
    /\ TokenFree
    /\ listing' = [listing EXCEPT ![l] = Listed(@, WithWellKnown(@.found), wellKnown)]
    /\ roleIds' = {wellKnown}
    /\ UNCHANGED <<parentOf, hidden, wellKnown, oddities>>

\* A request fails, and its listing with it; or the client of the listing leaves.
FailRequest(l) ==
    /\ listing[l].pc \in {"pages", "well_known", "hung"}
    /\ Odd
    /\ Fails(l)
    /\ UNCHANGED <<parentOf, hidden, wellKnown, roleIds>>

\* GOA is asked for a token and never answers, where no deadline ends the wait.
WaitForGoa(l) ==
    /\ listing[l].pc \in {"pages", "well_known"}
    /\ TokenFree
    /\ Odd
    /\ listing' = [listing EXCEPT ![l] = [pc |-> "hung"]]
    /\ UNCHANGED <<parentOf, hidden, wellKnown, roleIds>>

\* The user moves a folder; what is listed meanwhile may have it twice or not.
MoveFolder(f, to) ==
    /\ parentOf[f] # to
    /\ IsTree([parentOf EXCEPT ![f] = to])
    /\ Odd
    /\ parentOf' = [parentOf EXCEPT ![f] = to]
    /\ listing' = [l \in Lister |->
                     IF listing[l].pc \in {"pages", "roles", "well_known", "listed"}
                     THEN [listing[l] EXCEPT !.disturbed = TRUE] ELSE listing[l]]
    /\ UNCHANGED <<hidden, wellKnown, roleIds>>

ListingStep(l) ==
    VisitPage(l) \/ RefuseVisit(l) \/ EndPages(l) \/ ReadRoles(l) \/ AskWellKnown(l)

FolderNext ==
    \/ \E l \in Lister :
         \/ \E of \in {Root, Attachments} : StartListing(l, of)
         \/ ListingStep(l)
         \/ FailRequest(l)
         \/ WaitForGoa(l)
    \/ \E f \in GraphFolder, to \in GraphFolder \cup {Root} : MoveFolder(f, to)

FolderSpec == FolderInit /\ [][FolderNext]_folderVars

\* The server answers, or the request's timeout does.  A listing that waits for GOA
\* without a deadline has no step.
FolderFairness == \A l \in Lister : WF_folderVars(ListingStep(l))

-----------------------------------------------------------------------------
(* Properties                                                              *)

\* A listing that succeeds has every visible folder once and no other but the
\* well-known ones, whatever links the server sent; of a tree that changed under
\* it, it still has no folder twice.  A message's attachments are all there, once.
ListsTree ==
    \A l \in Lister :
        /\ listing[l].pc = "listed" =>
             /\ IsInjective(listing[l].found)
             /\ listing[l].roles = wellKnown
             /\ ~listing[l].disturbed =>
                  /\ Visible \subseteq Range(listing[l].found)
                  /\ Range(listing[l].found) \subseteq Visible \cup wellKnown
        /\ listing[l].pc = "attached" => listing[l].found = [n \in 1..AttachmentCount |-> n]

\* A listing ends, also when the links go round: no page is visited twice.  Only one
\* that GOA keeps waiting for a token, and those behind it, do not.
ListingsAtRest ==
    \A l \in Lister :
        \/ listing[l].pc \in {"idle", "listed", "attached", "failed"}
        \/ ~TokenFree /\ listing[l].pc \in {"hung", "pages", "well_known"}

=============================================================================
