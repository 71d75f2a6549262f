------------------------------- MODULE Groups -------------------------------
(***************************************************************************)
(* Groups: the Logic service of apps/logic/service/group_service.go with   *)
(* its statements (apps/logic/dao), reached through the gateway's HTTP     *)
(* handlers (apps/gateway/api/group_api/group_handler.go), and the fan-out *)
(* of a group message by the upload consumer (handleGroupChat).            *)
(*                                                                         *)
(* A request is a process; every SQL statement is a step of its own, since *)
(* only the creation of a group is a transaction.  Where the code ignores  *)
(* an error the statement may do nothing, at the cost of the fault budget. *)
(* Notices pushed to online members are left out: they change no table and *)
(* their errors are ignored.  User and group identifiers are numbers of    *)
(* the same kind, as in the code.                                          *)
(***************************************************************************)
EXTENDS Integers, FiniteSets

CONSTANTS GroupUsers,      \* user identifiers
          MaxGroups,       \* bound on group identifiers
          Requests,        \* requests in flight at the same time
          MaxRequests,     \* bound on requests
          MaxGroupFaults   \* bound on statements that fail unnoticed

ASSUME GroupBounds ==
  /\ GroupUsers \subseteq Nat \ {0} /\ IsFiniteSet(GroupUsers)
  /\ MaxGroups \in Nat /\ MaxRequests \in Nat /\ MaxGroupFaults \in Nat

VARIABLES
  groups,     \* rows of table groups
  created,    \* newest group identifier
  members,    \* rows of group_members: <<group, user>>
  gconvs,     \* conversations of session type 2: <<target, owner>>
  grows,      \* <<group, receiver>> with a message row
  req,        \* req[r]: the request in process r
  begun,      \* requests so far
  crossed,    \* pairs <<group, user>> two requests met on (for the properties)
  gfaults     \* statements that failed unnoticed

groupVars == <<groups, created, members, gconvs, grows, req, begun, crossed, gfaults>>
tables == <<groups, members, gconvs, grows>>

GroupIds == 1 .. MaxGroups
FreeReq == [op |-> "free", user |-> 0, group |-> 0, at |-> "idle", left |-> {}]
ReqAt(r, op, p) == req[r].op = op /\ req[r].at = p
SetReq(r, q) == req' = [req EXCEPT ![r] = q]
ReqGoto(r, p) == SetReq(r, [req[r] EXCEPT !.at = p])
FinishReq(r) == SetReq(r, FreeReq)

(* A statement whose error is ignored: table x becomes v, or stays.        *)
OrIgnored(x, new) ==
  \/ new /\ UNCHANGED gfaults
  \/ gfaults < MaxGroupFaults /\ gfaults' = gfaults + 1 /\ UNCHANGED x

----------------------------------------------------------------------------
(* The handlers start a service call for the user of the token, about a    *)
(* group whose identifier was given out.  A                                *)
(* dissolution may be asked by anybody, the check for the owner is left to *)
(* the front end; an approval joins the user it names.                     *)

BeginReq(r, op, u, g) ==
  /\ req[r].op = "free" /\ begun < MaxRequests /\ begun' = begun + 1
  /\ SetReq(r, [FreeReq EXCEPT !.op = op, !.user = u, !.group = g, !.at = "start"])
  /\ UNCHANGED <<tables, created, gfaults>>

CreateGroupHandler(r, u) == BeginReq(r, "create", u, 0)
JoinGroupHandler(r, u, g) == BeginReq(r, "join", u, g)
ApproveJoinGroupHandler(r, u, g) == JoinGroupHandler(r, u, g)
LeaveGroupHandler(r, u, g) == BeginReq(r, "leave", u, g)
DissolveGroupHandler(r, u, g) == BeginReq(r, "dissolve", u, g)

(* The upload consumer takes u's message to group g.                       *)
TakeGroupChat(r, u, g) == BeginReq(r, "chat", u, g)

----------------------------------------------------------------------------
(* CreateGroup: group and members in one transaction, which may fail, then *)
(* a conversation for every member.                                        *)

CreateGroup(r) ==
  /\ ReqAt(r, "create", "start") /\ created < MaxGroups /\ created' = created + 1
  /\ \/ \E invited \in SUBSET GroupUsers :
          LET all == invited \cup {req[r].user}
          IN /\ groups' = groups \cup {created'}
             /\ members' = members \cup ({created'} \X all)
             /\ SetReq(r, [req[r] EXCEPT !.group = created', !.at = "convs", !.left = all])
     \/ FinishReq(r) /\ UNCHANGED <<groups, members>>
  /\ UNCHANGED <<gconvs, grows, begun, gfaults>>

(* As CreateConversation, but the creator is left out.                     *)
MutCreateConversation(r) ==
  /\ ReqAt(r, "create", "convs")
  /\ \E u \in req[r].left :
       /\ gconvs' = IF u = req[r].user THEN gconvs
                    ELSE gconvs \cup {<<req[r].group, u>>}
       /\ IF req[r].left = {u} THEN FinishReq(r)
          ELSE SetReq(r, [req[r] EXCEPT !.left = @ \ {u}])
  /\ UNCHANGED <<groups, created, members, grows, begun, gfaults>>

CreateConversation(r) ==
  /\ ReqAt(r, "create", "convs")
  /\ \E u \in req[r].left :
       /\ OrIgnored(gconvs, gconvs' = gconvs \cup {<<req[r].group, u>>})
       /\ IF req[r].left = {u} THEN FinishReq(r)
          ELSE SetReq(r, [req[r] EXCEPT !.left = @ \ {u}])
  /\ UNCHANGED <<groups, created, members, grows, begun>>

----------------------------------------------------------------------------
(* JoinGroup inserts the member, also into a group that was dissolved; a   *)
(* repetition violates the unique index and ends the request.              *)
JoinGroup(r) ==
  LET pair == <<req[r].group, req[r].user>>
  IN /\ ReqAt(r, "join", "start")
     /\ \/ pair \notin members /\ members' = members \cup {pair} /\ ReqGoto(r, "conv")
        \/ pair \in members /\ FinishReq(r) /\ UNCHANGED members
     /\ UNCHANGED <<groups, created, gconvs, grows, begun, gfaults>>

JoinConversation(r) ==
  /\ ReqAt(r, "join", "conv") /\ FinishReq(r)
  /\ OrIgnored(gconvs, gconvs' = gconvs \cup {<<req[r].group, req[r].user>>})
  /\ UNCHANGED <<groups, created, members, grows, begun>>

(* LeaveGroup deletes the member, then the conversation.                   *)
LeaveGroup(r) ==
  /\ ReqAt(r, "leave", "start") /\ ReqGoto(r, "conv")
  /\ members' = members \ {<<req[r].group, req[r].user>>}
  /\ UNCHANGED <<groups, created, gconvs, grows, begun, gfaults>>

(* DeleteConversation is symmetric in its identifiers: it also deletes the *)
(* conversation of the user numbered like the group with the group         *)
(* numbered like the user.                                                 *)
LeaveConversation(r) ==
  LET g == req[r].group u == req[r].user
  IN /\ ReqAt(r, "leave", "conv") /\ FinishReq(r)
     /\ OrIgnored(gconvs, gconvs' = gconvs \ {<<g, u>>, <<u, g>>})
     /\ UNCHANGED <<groups, created, members, grows, begun>>

----------------------------------------------------------------------------
(* DissolveGroup reads the members to notify them and deletes members,     *)
(* messages, conversations and group; it reports success in any case.      *)

(* As DissolveGroup, but the members are deleted after the conversations.  *)
MutDissolveGroup(r) ==
  LET g == req[r].group
      Without(t) == {p \in t : p[1] # g}
  IN \/ /\ ReqAt(r, "dissolve", "start") /\ ReqGoto(r, "convs")
        /\ OrIgnored(grows, grows' = Without(grows))
        /\ UNCHANGED <<groups, created, members, gconvs, begun>>
     \/ /\ ReqAt(r, "dissolve", "convs") /\ ReqGoto(r, "rows")
        /\ OrIgnored(gconvs, gconvs' = Without(gconvs))
        /\ UNCHANGED <<groups, created, members, grows, begun>>
     \/ /\ ReqAt(r, "dissolve", "rows") /\ ReqGoto(r, "group")
        /\ OrIgnored(members, members' = Without(members))
        /\ UNCHANGED <<groups, created, gconvs, grows, begun>>
     \/ /\ ReqAt(r, "dissolve", "group") /\ FinishReq(r)
        /\ OrIgnored(groups, groups' = groups \ {g})
        /\ UNCHANGED <<created, members, gconvs, grows, begun>>

DissolveGroup(r) ==
  LET g == req[r].group
      Without(t) == {p \in t : p[1] # g}
  IN \/ /\ ReqAt(r, "dissolve", "start") /\ ReqGoto(r, "rows")
        /\ OrIgnored(members, members' = Without(members))
        /\ UNCHANGED <<groups, created, gconvs, grows, begun>>
     \/ /\ ReqAt(r, "dissolve", "rows") /\ ReqGoto(r, "convs")
        /\ OrIgnored(grows, grows' = Without(grows))
        /\ UNCHANGED <<groups, created, members, gconvs, begun>>
     \/ /\ ReqAt(r, "dissolve", "convs") /\ ReqGoto(r, "group")
        /\ OrIgnored(gconvs, gconvs' = Without(gconvs))
        /\ UNCHANGED <<groups, created, members, grows, begun>>
     \/ /\ ReqAt(r, "dissolve", "group") /\ FinishReq(r)
        /\ OrIgnored(groups, groups' = groups \ {g})
        /\ UNCHANGED <<created, members, gconvs, grows, begun>>

----------------------------------------------------------------------------
(* handleGroupChat reads the members and, for each of them, inserts a row  *)
(* and updates the conversation; a member whose insert fails is skipped.   *)

GetGroupMembers(r) ==
  LET found == {u \in GroupUsers : <<req[r].group, u>> \in members}
  IN /\ ReqAt(r, "chat", "start")
     /\ IF found = {} THEN FinishReq(r)
        ELSE SetReq(r, [req[r] EXCEPT !.at = "row", !.left = found])
     /\ UNCHANGED <<tables, created, begun, gfaults>>

InsertGroupRow(r) ==
  /\ ReqAt(r, "chat", "row")
  /\ \E u \in req[r].left :
       /\ grows' = grows \cup {<<req[r].group, u>>}
       /\ SetReq(r, [req[r] EXCEPT !.at = "conv", !.user = u])
  /\ UNCHANGED <<groups, created, members, gconvs, begun, gfaults>>

UpdateGroupConversation(r) ==
  LET u == req[r].user
  IN /\ ReqAt(r, "chat", "conv")
     /\ OrIgnored(gconvs, gconvs' = gconvs \cup {<<req[r].group, u>>})
     /\ IF req[r].left = {u} THEN FinishReq(r)
        ELSE SetReq(r, [req[r] EXCEPT !.at = "row", !.left = @ \ {u}])
     /\ UNCHANGED <<groups, created, members, grows, begun>>

----------------------------------------------------------------------------
(* For the properties: the pairs a request is about to change.  Two        *)
(* requests that meet on one, and a join to a group that is not there any  *)
(* more, leave the pair unsettled.                                         *)

Touched(q) ==
  CASE q.op \in {"join", "leave"} -> {<<q.group, q.user>>}
    [] q.op = "dissolve" /\ q.at = "start" -> {q.group} \X GroupUsers
    [] OTHER -> {q.group} \X q.left

GroupLive(g, rs) ==
  g \in groups' /\ \A r \in Requests : rs[r].op = "dissolve" /\ rs[r].group = g
                                         => rs[r].at = "start"

Meetings(rs) ==
  (UNION {Touched(rs[p[1]]) \cap Touched(rs[p[2]]) :
            p \in {d \in Requests \X Requests :
                     d[1] # d[2] /\ ~(rs[d[1]].op = "chat" /\ rs[d[2]].op = "chat")}})
  \cup (UNION {Touched(rs[r]) : r \in {o \in Requests : rs[o].op = "join"
                                                        /\ ~GroupLive(rs[o].group, rs)}})

GroupInit ==
  /\ groups = {} /\ created = 0 /\ members = {} /\ gconvs = {} /\ grows = {}
  /\ req = [r \in Requests |-> FreeReq] /\ begun = 0 /\ crossed = {} /\ gfaults = 0

GroupStep(r) ==
  \/ CreateGroup(r) \/ CreateConversation(r) \/ JoinGroup(r) \/ JoinConversation(r)
  \/ LeaveGroup(r) \/ LeaveConversation(r) \/ DissolveGroup(r)
  \/ GetGroupMembers(r) \/ InsertGroupRow(r) \/ UpdateGroupConversation(r)

GroupNext ==
  /\ \E r \in Requests :
       \/ GroupStep(r)
       \/ \E u \in GroupUsers :
            \/ CreateGroupHandler(r, u)
            \/ \E g \in 1 .. created :
                 \/ JoinGroupHandler(r, u, g) \/ ApproveJoinGroupHandler(r, u, g)
                 \/ LeaveGroupHandler(r, u, g) \/ DissolveGroupHandler(r, u, g)
                 \/ TakeGroupChat(r, u, g)
  /\ crossed' = crossed \cup Meetings(req')

GroupSpec == GroupInit /\ [][GroupNext]_groupVars

----------------------------------------------------------------------------
(* Properties.                                                             *)

GroupSettled(g) == \A r \in Requests : req[r].group # g
Collides(g, u) == u # g /\ u \in GroupIds /\ g \in GroupUsers

(* The member list and the conversation list agree once no request works   *)
(* on the group, although no transaction holds the two together: they      *)
(* differ only for a user on whom two requests met, after a statement that *)
(* failed unnoticed, or where identifiers of users and groups coincide     *)
(* (CreateGroup, JoinGroup, LeaveGroup, handleGroupChat).                  *)
ConvFollowsMembership ==
  \A g \in GroupIds, u \in GroupUsers :
    GroupSettled(g) /\ gfaults = 0 /\ <<g, u>> \notin crossed /\ ~Collides(g, u) =>
      (<<g, u>> \in members <=> <<g, u>> \in gconvs)

(* Nothing of a dissolved group is left, in spite of messages that arrive  *)
(* while it is being deleted, save for users on whom two requests met: the *)
(* members go first, so a later fan-out finds nobody (DissolveGroup).      *)
DissolvedIsGone ==
  \A g \in 1 .. created, u \in GroupUsers :
    g \notin groups /\ GroupSettled(g) /\ gfaults = 0 /\ <<g, u>> \notin crossed =>
      <<g, u>> \notin members \cup gconvs \cup grows
=============================================================================
