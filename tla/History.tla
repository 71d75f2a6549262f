------------------------------ MODULE History ------------------------------
(***************************************************************************)
(* Friendship and chat history of two users: the Logic services of         *)
(* apps/logic/service/friend_service.go and chat_service.go with their     *)
(* queries (apps/logic/dao), called by the gateway's HTTP handlers         *)
(* (apps/gateway/api).  A client walks the history page by page with a     *)
(* cursor; the first page is cached in Redis under reader and limit.  The  *)
(* upload consumer inserts messages and sweeps the cached pages; deleting  *)
(* the friend erases conversations and messages and sweeps them too.       *)
(* Every statement is a step of its own, and so is every access to the     *)
(* cache; the keys of a sweep are independent and go in one.               *)
(*                                                                         *)
(* Messages are numbered by msg_id.  A history page is the set of its      *)
(* messages; the order inside it is that of msg_id.                        *)
(***************************************************************************)
EXTENDS Integers, FiniteSets, FiniteSetsExt

CONSTANTS Clients,       \* clients that walk the history
          Limits,        \* values of the limit parameter they use
          SweptLimits,   \* limits invalidateChatCache knows (20, 50, 100)
          MaxChatLimit,  \* maxChatLimit (200)
          DefaultLimit,  \* limit for a value out of range (20)
          MaxMsgs,       \* bound on messages
          MaxWalks,      \* bound on walks of a client
          MaxApplies,    \* bound on friend requests
          MaxErases      \* bound on deletions of the friend

ASSUME HistoryBounds ==
  /\ Limits \subseteq Nat \ {0} /\ SweptLimits \subseteq Limits /\ MaxChatLimit \in Nat /\ MaxMsgs \in Nat
  /\ DefaultLimit \in 1 .. MaxChatLimit /\ MaxWalks \in Nat
  /\ MaxApplies \in Nat /\ MaxErases \in Nat

Pair == {"a", "b"}
Peer(u) == CHOOSE v \in Pair : v # u
NoPage == [msgs |-> {}, more |-> FALSE, late |-> FALSE]

VARIABLES
  friends,   \* friends[u]: status of the request u made, "none" without a row
  applies,   \* friend requests so far
  erases,    \* deletions so far
  convs,     \* owners of a conversation row with the other user
  rows,      \* messages between the two in MySQL
  sent,      \* messages inserted so far
  cached,    \* cached[u, l]: [msgs, more, late]; no msgs when absent
  sweeps,    \* times the cached pages were deleted
  lostDel,   \* a deletion of cached pages failed unnoticed
  upload,    \* stage of updateConversationAndPush
  erase,     \* stage of DeleteFriend
  walk       \* walk[c]: the client's walk

historyVars == <<friends, applies, erases, convs, rows, sent, cached, sweeps, lostDel, upload,
                 erase, walk>>

----------------------------------------------------------------------------
(* Friends.  A row exists per direction; resolving touches the pending     *)
(* rows of both.  (Requests that change nothing answer an error.)          *)

ApplyFriend(u) ==
  /\ friends[u] = "none" /\ applies < MaxApplies /\ applies' = applies + 1
  /\ friends' = [friends EXCEPT ![u] = "pending"]
  /\ UNCHANGED <<erases, convs, rows, sent, cached, sweeps, lostDel, upload, erase, walk>>

ApplyFriendHandler == \E u \in Pair : ApplyFriend(u)

ResolveFriend(status) ==
  /\ \E u \in Pair : friends[u] = "pending"
  /\ friends' = [u \in Pair |-> IF friends[u] = "pending" THEN status ELSE friends[u]]
  /\ UNCHANGED <<applies, erases, convs, rows, sent, cached, sweeps, lostDel, upload,
                 erase, walk>>

(* Any action but "accept" rejects.                                        *)
ResolveFriendHandler == \E status \in {"accepted", "rejected"} : ResolveFriend(status)

(* DeleteFriend: relation, conversations, messages, cached pages, notice.  *)
(* A relation need not exist: deleting no row is no error.  The errors of  *)
(* all but the first statement are ignored.                                *)
DeleteFriend ==
  /\ erase = "idle" /\ erase' = "convs"
  /\ erases < MaxErases /\ erases' = erases + 1
  /\ friends' = [u \in Pair |-> "none"]
  /\ UNCHANGED <<applies, convs, rows, sent, cached, sweeps, lostDel, upload, walk>>

DeleteConversation ==
  /\ erase = "convs" /\ erase' = "rows" /\ convs' \in {{}, convs}
  /\ UNCHANGED <<friends, applies, erases, rows, sent, cached, sweeps, lostDel, upload, walk>>

DeleteMessagesBetween ==
  /\ erase = "rows" /\ erase' = "sweep" /\ rows' \in {{}, rows}
  /\ UNCHANGED <<friends, applies, erases, convs, sent, cached, sweeps, lostDel, upload, walk>>

(* invalidateChatCache deletes the first pages of both users for the       *)
(* limits it knows; an error of Redis is ignored.                          *)
invalidateChatCache ==
  \/ /\ cached' = [k \in Pair \X Limits |-> IF k[2] \in SweptLimits THEN NoPage
                                             ELSE cached[k]]
     /\ sweeps' = sweeps + 1 /\ UNCHANGED lostDel
  \/ lostDel' = TRUE /\ UNCHANGED <<cached, sweeps>>

(* As EraseSweep, but the cached pages stay.                               *)
MutEraseSweep ==
  /\ erase = "sweep" /\ erase' = "idle"
  /\ UNCHANGED <<friends, applies, erases, convs, rows, sent, cached, sweeps, lostDel, upload, walk>>

EraseSweep ==
  /\ erase = "sweep" /\ erase' = "idle" /\ invalidateChatCache
  /\ UNCHANGED <<friends, applies, erases, convs, rows, sent, upload, walk>>

----------------------------------------------------------------------------
(* The upload consumer: insert, conversations, sweep.                      *)

StoreMessage ==
  /\ upload = "idle" /\ sent < MaxMsgs /\ sent' = sent + 1
  /\ rows' = rows \cup {sent'} /\ upload' = "convs"
  /\ UNCHANGED <<friends, applies, erases, convs, cached, sweeps, lostDel, erase, walk>>

UpsertConversation ==
  /\ upload = "convs" /\ upload' = "sweep" /\ convs' \in {Pair, convs}
  /\ UNCHANGED <<friends, applies, erases, rows, sent, cached, sweeps, lostDel, erase, walk>>

UploadSweep ==
  /\ upload = "sweep" /\ upload' = "idle" /\ invalidateChatCache
  /\ UNCHANGED <<friends, applies, erases, convs, rows, sent, erase, walk>>

----------------------------------------------------------------------------
(* GetChatHistory.                                                         *)

(* As Below, but the cursor itself is included.                            *)
MutBelow(s, cursor) == {m \in s : cursor = 0 \/ m <= cursor}

(* The rows below the cursor (all for cursor 0), newest first, up to the   *)
(* limit.                                                                  *)
Below(s, cursor) == {m \in s : cursor = 0 \/ m < cursor}

Newest(s, n) == {m \in s : Cardinality({k \in s : k >= m}) <= n}

dbLimit(l) == IF l > MaxChatLimit THEN DefaultLimit ELSE l

(* The page a query answers; has_more compares with the requested limit.   *)
Page(s, cursor, l) ==
  LET ms == Newest(Below(s, cursor), dbLimit(l))
  IN [msgs |-> ms, more |-> Cardinality(ms) = l]

IdleWalk == [stage |-> "idle", user |-> "a", limit |-> 1, cursor |-> 0, got |-> {},
         twice |-> FALSE, start |-> {}, page |-> NoPage, at |-> 0, hit |-> FALSE,
         walks |-> 0]

SetWalk(c, r) == walk' = [walk EXCEPT ![c] = r]

(* A client opens the history: first page, cursor 0.                       *)
OpenHistory(c) ==
  \E u \in Pair, l \in Limits :
    /\ walk[c].stage = "idle" /\ walk[c].walks < MaxWalks
    /\ SetWalk(c, [IdleWalk EXCEPT !.stage = "cache", !.user = u, !.limit = l,
                           !.start = rows, !.walks = walk[c].walks + 1])
    /\ UNCHANGED <<friends, applies, erases, convs, rows, sent, cached, sweeps, lostDel, upload,
                   erase>>

(* The page p reaches the client, who asks for the next one from the       *)
(* oldest message if there are more.                                       *)
Receive(w, p) ==
  [w EXCEPT !.stage = IF p.more THEN "db" ELSE "done",
            !.cursor = IF p.more THEN Min(p.msgs) ELSE w.cursor,
            !.got = @ \cup p.msgs,
            !.twice = @ \/ w.got \cap p.msgs # {}]

CacheHit(c) ==
  LET w == walk[c] k == <<w.user, w.limit>>
  IN /\ w.stage = "cache" /\ cached[k].msgs # {}
     /\ SetWalk(c, [Receive(w, cached[k]) EXCEPT !.hit = TRUE])
     /\ UNCHANGED <<friends, applies, erases, convs, rows, sent, cached, sweeps, lostDel, upload,
                    erase>>

CacheMiss(c) ==
  LET w == walk[c]
  IN /\ w.stage = "cache" /\ cached[<<w.user, w.limit>>].msgs = {}
     /\ SetWalk(c, [w EXCEPT !.stage = "db"])
     /\ UNCHANGED <<friends, applies, erases, convs, rows, sent, cached, sweeps, lostDel, upload,
                    erase>>

(* The query; a non-empty first page is then written to the cache.         *)
Query(c) ==
  LET w == walk[c] p == Page(rows, w.cursor, w.limit)
  IN /\ w.stage = "db"
     /\ SetWalk(c, IF w.cursor = 0 /\ p.msgs # {}
               THEN [w EXCEPT !.stage = "fill", !.page = p, !.at = sweeps]
               ELSE Receive(w, p))
     /\ UNCHANGED <<friends, applies, erases, convs, rows, sent, cached, sweeps, lostDel, upload,
                    erase>>

Fill(c) ==
  LET w == walk[c] k == <<w.user, w.limit>>
  IN /\ w.stage = "fill"
     /\ cached' = [cached EXCEPT ![k] = [msgs |-> w.page.msgs, more |-> w.page.more,
                                         late |-> w.at # sweeps]]
     /\ SetWalk(c, Receive(w, w.page))
     /\ UNCHANGED <<friends, applies, erases, convs, rows, sent, sweeps, lostDel, upload, erase>>

CloseWalk(c) ==
  /\ walk[c].stage = "done" /\ SetWalk(c, [IdleWalk EXCEPT !.walks = walk[c].walks])
  /\ UNCHANGED <<friends, applies, erases, convs, rows, sent, cached, sweeps, lostDel, upload, erase>>

(* The five minutes of a cached page end.                                  *)
ExpirePage(k) ==
  /\ cached[k].msgs # {} /\ cached' = [cached EXCEPT ![k] = NoPage]
  /\ UNCHANGED <<friends, applies, erases, convs, rows, sent, sweeps, lostDel, upload, erase, walk>>

----------------------------------------------------------------------------
HistoryInit ==
  /\ friends = [u \in Pair |-> "none"] /\ applies = 0 /\ erases = 0 /\ convs = {}
  /\ rows = {} /\ sent = 0 /\ cached = [k \in Pair \X Limits |-> NoPage]
  /\ sweeps = 0 /\ lostDel = FALSE /\ upload = "idle" /\ erase = "idle"
  /\ walk = [c \in Clients |-> IdleWalk]

HistoryNext ==
  \/ ApplyFriendHandler \/ ResolveFriendHandler
  \/ DeleteFriend \/ DeleteConversation \/ DeleteMessagesBetween \/ EraseSweep
  \/ StoreMessage \/ UpsertConversation \/ UploadSweep
  \/ \E c \in Clients : \/ OpenHistory(c) \/ CacheHit(c) \/ CacheMiss(c) \/ Query(c)
                        \/ Fill(c) \/ CloseWalk(c)
  \/ \E k \in Pair \X Limits : ExpirePage(k)

HistorySpec == HistoryInit /\ [][HistoryNext]_historyVars

----------------------------------------------------------------------------
(* Properties.                                                             *)

(* The comment of invalidateChatCache promises that the next fetch does    *)
(* not use an old page.  A cached page differs from the rows only while a  *)
(* sweep is still to come or was lost, for a limit the sweep does not      *)
(* know, or when its reader was overtaken: it queried before a sweep and   *)
(* wrote the page after it (GetChatHistory).                               *)
StaleOnlyWhenOvertaken ==
  \A u \in Pair, l \in SweptLimits :
    LET e == cached[<<u, l>>]
    IN e.msgs # {} /\ [msgs |-> e.msgs, more |-> e.more] # Page(rows, 0, l) =>
         upload # "idle" \/ erase = "sweep" \/ e.late \/ lostDel

(* The cursor makes a walk stable: messages that arrive or are erased      *)
(* meanwhile never make it show a message twice or skip one that was there *)
(* at the start and still is, for limits the query honours and a first     *)
(* page read from the table (GetChatHistory in dao/messages.go).           *)
WalkComplete ==
  \A c \in Clients :
    LET w == walk[c]
    IN /\ ~w.twice
       /\ w.stage = "done" /\ w.limit <= MaxChatLimit /\ ~w.hit =>
            w.start \cap rows \subseteq w.got
=============================================================================
