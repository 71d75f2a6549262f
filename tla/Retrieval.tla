----------------------------- MODULE Retrieval -----------------------------
(***************************************************************************)
(* What the Agent computes between a search and the model: rank fusion     *)
(* (apps/agent/retrieval/fusion.go), the reranker (graph/reranker.go), the *)
(* chat history search (tools/search_chat_history.go, mcp/search_chat.go), *)
(* the messages of a group (tools/summarize_group.go) and the recall of    *)
(* summaries (memory/summarizer.go, engine/engine.go).  A step evaluates   *)
(* one of them on an input; in and out hold the input, as it was asked,    *)
(* and its result.                                                         *)
(***************************************************************************)
EXTENDS Integers, Sequences, FiniteSets
LOCAL INSTANCE SequencesExt
LOCAL INSTANCE FiniteSetsExt

CONSTANTS Ids,         \* message ids, a set of numbers
          MaxLength,   \* bound on the length of a ranked list
          Keywords,    \* words of a search
          MaxScore,    \* bound on the scores of the reranking model
          MinCandidates, MaxCandidates,  \* 20 and 200: candidates of a search
          GroupPull, GroupMax            \* 200 and 500: messages of a group

ASSUME RetrievalAssumption ==
  /\ Ids \subseteq Nat /\ MaxLength \in Nat /\ MaxScore \in Nat
  /\ MinCandidates \in Nat \ {0} /\ MaxCandidates \in Nat /\ MinCandidates <= MaxCandidates
  /\ GroupPull \in Nat \ {0} /\ GroupMax \in Nat /\ GroupPull <= GroupMax

VARIABLES in, out

retrVars == <<in, out>>

Lists == UNION {[1 .. n -> Ids] : n \in 0 .. MaxLength}
Elements(s) == {s[i] : i \in DOMAIN s}
Evaluate(input, result) == in' = input /\ out' = result

----------------------------------------------------------------------------
(* Fusion.  The rank of an id is the place of its first occurrence.        *)
Rank(list, id) == Min({i \in DOMAIN list : list[i] = id})

(* 1 / (k + rank), over a common denominator.                              *)
Share(k, rank) == FoldSet(LAMBDA i, p : IF i = rank THEN p ELSE p * (k + i), 1, 1 .. MaxLength)

(* As RRF, but a repeated id adds a share for every occurrence.            *)
MutRRF(k, lists, id) ==
  FoldSet(LAMBDA l, s : FoldSet(LAMBDA i, t : t + Share(k, i), s,
                                {i \in DOMAIN lists[l] : lists[l][i] = id}),
          0, DOMAIN lists)

(* The reciprocal ranks of an id, added over the lists.                    *)
RRF(k, lists, id) ==
  FoldSet(LAMBDA l, s : s + Share(k, Rank(lists[l], id)), 0,
          {l \in DOMAIN lists : id \in Elements(lists[l])})

BestRank(lists, id) ==
  Min({Rank(lists[l], id) : l \in {m \in DOMAIN lists : id \in Elements(lists[m])}})

(* FuseMessages and FuseRankedIDs.                                         *)
FuseRankedIDs(k0, lists) ==
  LET k == IF k0 <= 0 THEN 60 ELSE k0
      Before(x, y) ==
        LET sx == RRF(k, lists, x) sy == RRF(k, lists, y)
            bx == BestRank(lists, x) by == BestRank(lists, y)
        IN IF sx # sy THEN sx > sy ELSE IF bx # by THEN bx < by ELSE x < y
  IN SetToSortSeq(UNION {Elements(lists[l]) : l \in DOMAIN lists}, Before)

Fuse ==
  \E k \in {0, 1}, a, b \in Lists :
    Evaluate([op |-> "fuse", lists |-> <<a, b>>], FuseRankedIDs(k, <<a, b>>))

----------------------------------------------------------------------------
(* Reranking of documents 1 .. n.                                          *)

(* parseScores: the last score of a document counts, one that is not named *)
(* has 0; when no entry of the answer is usable the old order stands.      *)
parseScores(reply, n) ==
  LET usable == SelectSeq(reply, LAMBDA e : e[1] \in 1 .. n /\ e[2] >= 0)
      last(d) == SelectLastInSeq(usable, LAMBDA e : e[1] = d)
  IN IF usable = <<>> THEN [d \in 1 .. n |-> n - d + 1]
     ELSE [d \in 1 .. n |-> IF last(d) = 0 THEN 0 ELSE usable[last(d)][2]]

(* The index pairs of the nested loops of sortByScore, in their order.     *)
ExchangePairs(n) ==
  SetToSortSeq({p \in (1 .. n) \X (1 .. n) : p[1] < p[2]},
               LAMBDA p, q : p[1] < q[1] \/ (p[1] = q[1] /\ p[2] < q[2]))

sortByScore(n, scores) ==
  FoldLeft(LAMBDA s, p : IF scores[s[p[2]]] > scores[s[p[1]]]
                         THEN [s EXCEPT ![p[1]] = s[p[2]], ![p[2]] = s[p[1]]] ELSE s,
           [d \in 1 .. n |-> d], ExchangePairs(n))

(* Rerank: a failed call of the model keeps the order.                     *)
Rerank ==
  \E n \in 0 .. 3 : \E fails \in BOOLEAN :
    \E reply \in UNION {[1 .. m -> (0 .. n + 1) \X (-1 .. MaxScore)] : m \in 0 .. 2} :
      LET scores == parseScores(reply, n)
      IN Evaluate([op |-> "rerank", n |-> n, kept |-> fails \/ n <= 1, scores |-> scores],
                  IF fails \/ n <= 1 THEN [d \in 1 .. n |-> d] ELSE sortByScore(n, scores))

----------------------------------------------------------------------------
(* Search of one conversation.  ranked is the answer of Milvus under the   *)
(* conversation filter and above the score gate, stored the messages that  *)
(* are still in MySQL, words[m] the keywords message m contains.  Both     *)
(* sources are asked for as many candidates as the limit, within bounds.   *)
CandidateLimit(limit) == Min({MaxCandidates, Max({MinCandidates, limit})})

OrderMessagesByIDs(stored, ids) ==
  SelectSeq(SetToSortSeq({i \in DOMAIN ids : Rank(ids, ids[i]) = i}, <),
            LAMBDA i : ids[i] \in stored)

HasContentKeywordCoverage(messages, words) ==
  messages # {} /\ \A w \in Keywords : \E m \in messages : w \in words[m]

(* semanticFallback and semanticMCP.                                       *)
semanticFallback(stored, ranked, words) ==
  LET places == OrderMessagesByIDs(stored, ranked)
      found == [i \in DOMAIN places |-> ranked[places[i]]]
  IN IF HasContentKeywordCoverage(Elements(found), words) THEN found ELSE <<>>

(* SearchHistoryMessages: messages with every keyword, newest first.       *)
SearchHistoryMessages(stored, words, limit) ==
  LET matching == SetToSortSeq({m \in stored : words[m] = Keywords}, LAMBDA x, y : x > y)
  IN SubSeq(matching, 1, Min({limit, Len(matching)}))

(* searchHistoryInvoker stops after the message whose index reaches the    *)
(* limit, so one more than the limit is returned.                          *)
searchHistoryInvoker(found, limit) ==
  IF limit > 0 /\ Len(found) > limit THEN SubSeq(found, 1, limit + 1) ELSE found

(* The tool of the MCP server stops before it.                             *)
RegisterSearchChatHistory(found, limit) == SubSeq(found, 1, Min({limit, Len(found)}))

SearchHistory ==
  \E stored \in SUBSET Ids, words \in [Ids -> SUBSET Keywords], limit \in 0 .. MaxCandidates + 1 :
    \E ranked \in {l \in Lists : Len(l) <= CandidateLimit(limit)} :
      LET semantic == semanticFallback(stored, ranked, words)
          found == IF semantic # <<>> THEN semantic
                   ELSE SearchHistoryMessages(stored, words, CandidateLimit(limit))
      IN \E mcp \in BOOLEAN :
           Evaluate([op |-> "search", stored |-> stored, ranked |-> ranked, words |-> words,
                     limit |-> limit, mcp |-> mcp, semantic |-> semantic # <<>>],
                    IF mcp THEN RegisterSearchChatHistory(found, limit)
                    ELSE searchHistoryInvoker(found, limit))

(* GetGroupMessages: the newest ones first, with a limit of its own.       *)
GetGroupMessages(stored, limit) ==
  LET newest == SetToSortSeq(stored, LAMBDA x, y : x > y)
      most == IF limit <= 0 \/ limit > GroupPull THEN GroupPull ELSE limit
  IN SubSeq(newest, 1, Min({most, Len(newest)}))

(* summarizeGroupInvoker names them in the order they were sent.  A caller *)
(* who is not a member gets an error.                                      *)
summarizeGroupInvoker ==
  \E stored \in SUBSET Ids, limit \in -1 .. GroupMax + 1, member \in BOOLEAN :
    LET most == IF limit <= 0 \/ limit > GroupMax THEN GroupPull ELSE limit
    IN Evaluate([op |-> "group", stored |-> stored, limit |-> limit, member |-> member],
                IF member THEN Reverse(GetGroupMessages(stored, most)) ELSE <<>>)

----------------------------------------------------------------------------
(* Summaries.  SummarizeWithLLM takes a reply that is not JSON as the      *)
(* summary and brings the importance into 0 .. 5; <<>> is the error.       *)
SummarizeWithLLM(reply) ==
  IF reply.failed \/ reply.text = "" THEN <<>>
  ELSE IF ~reply.json THEN <<[summary |-> reply.text, importance |-> 1]>>
  ELSE <<[summary |-> IF reply.summary = "" THEN reply.text ELSE reply.summary,
          importance |-> IF reply.importance < 0 THEN 1 ELSE Min({5, reply.importance})]>>

Summarize ==
  \E reply \in [failed : BOOLEAN, text : {"", "text"}, json : BOOLEAN,
                summary : {"", "summary"}, importance : {-1, 0, 5, 6}] :
    Evaluate([op |-> "summary"], SummarizeWithLLM(reply))

(* Recall.  A candidate is [content, score, importance]; content 0 is      *)
(* empty, scores are in hundredths, minScore is 50, tieThreshold 5.        *)
Less(x, y) ==
  IF x.score - y.score > 5 \/ y.score - x.score > 5 THEN x.score > y.score
  ELSE IF x.importance # y.importance THEN x.importance > y.importance
  ELSE x.score > y.score

deduplicateByContent(items) ==
  LET first == SetToSortSeq({i \in DOMAIN items : \A j \in 1 .. i - 1 :
                               items[j].content # items[i].content}, <)
  IN [k \in DOMAIN first |-> items[first[k]]]

(* sort.Slice on up to 12 items inserts them one by one, each before the   *)
(* last run of items it is less than.  Less is not transitive.             *)
InsertItem(sorted, x) ==
  LET stop == Max({0} \cup {i \in DOMAIN sorted : ~Less(x, sorted[i])})
  IN SubSeq(sorted, 1, stop) \o <<x>> \o SubSeq(sorted, stop + 1, Len(sorted))

RecallMemory(docs, topK) ==
  LET candidates == SelectSeq(docs, LAMBDA d : d.score >= 50 /\ d.content # 0)
      sorted == FoldLeft(InsertItem, <<>>, deduplicateByContent(candidates))
  IN SubSeq(sorted, 1, Min({topK, Len(sorted)}))

Recall ==
  \E n \in 0 .. 4, topK \in 1 .. 2 :
    \E contents \in [1 .. n -> 0 .. 3], importances \in [1 .. n -> 0 .. 1],
       scores \in {f \in [1 .. n -> {49, 52, 56, 60}] :
                    \A i \in 1 .. n - 1 : f[i] >= f[i + 1]} :
      LET docs == [i \in 1 .. n |-> [content |-> contents[i], score |-> scores[i],
                                    importance |-> importances[i]]]
      IN Evaluate([op |-> "recall", docs |-> docs, topK |-> topK], RecallMemory(docs, topK))

----------------------------------------------------------------------------
RetrievalInit == in = [op |-> "none"] /\ out = <<>>

RetrievalNext ==
  /\ in.op = "none"
  /\ \/ Fuse \/ Rerank \/ SearchHistory \/ summarizeGroupInvoker \/ Summarize \/ Recall

RetrievalSpec == RetrievalInit /\ [][RetrievalNext]_retrVars

----------------------------------------------------------------------------
(* Properties.                                                             *)

Injective(s) == \A i, j \in DOMAIN s : s[i] = s[j] => i = j

FusionMonotone ==
  LET lists == in.lists
      dominates(x, y) == \A l \in DOMAIN lists : y \in Elements(lists[l]) =>
        x \in Elements(lists[l]) /\ Rank(lists[l], x) <= Rank(lists[l], y)
  IN /\ Injective(out) /\ Elements(out) = UNION {Elements(lists[l]) : l \in DOMAIN lists}
     /\ \A i, j \in DOMAIN out : i # j /\ dominates(out[i], out[j]) => i < j

RerankSorted ==
  /\ Injective(out) /\ Elements(out) = 1 .. in.n
  /\ IF in.kept THEN \A d \in 1 .. in.n : out[d] = d
     ELSE \A i, j \in 1 .. in.n : i < j => in.scores[out[i]] >= in.scores[out[j]]

(* The best matches of the source that answered, none of them left out     *)
(* below the limit and the number of candidates.  The MCP tool returns no  *)
(* more than its limit; the Agent's own returns one more, which is not     *)
(* claimed here.                                                           *)
SearchFaithful ==
  LET matches == IF in.semantic THEN in.stored \cap Elements(in.ranked)
                 ELSE {m \in in.stored : in.words[m] = Keywords}
      Before(x, y) == IF in.semantic THEN Rank(in.ranked, x) < Rank(in.ranked, y) ELSE x > y
  IN /\ Injective(out) /\ Elements(out) \subseteq matches
     /\ \A i, j \in DOMAIN out : i < j => Before(out[i], out[j])
     /\ \A m \in matches \ Elements(out) : \A i \in DOMAIN out : Before(out[i], m)
     /\ Len(out) >= Min({in.limit, MaxCandidates, Cardinality(matches)})
     /\ in.mcp => Len(out) <= in.limit

(* As many as asked for, up to what one query pulls.                       *)
GroupChronological ==
  LET asked == IF in.limit > 0 THEN in.limit ELSE GroupPull
  IN /\ Len(out) = IF in.member THEN Min({asked, GroupPull, Cardinality(in.stored)}) ELSE 0
     /\ \A i, j \in DOMAIN out : i < j => out[i] < out[j]
     /\ \A m \in in.stored \ Elements(out) : \A i \in DOMAIN out : m < out[i]

RecallOrdered ==
  /\ Len(out) <= in.topK /\ Elements(out) \subseteq Elements(in.docs)
  /\ \A i, j \in DOMAIN out : out[i].content = out[j].content => i = j
  /\ \A i \in DOMAIN out :
       /\ out[i].score >= 50
       /\ \A d \in Elements(in.docs) : d.content = out[i].content => d.score <= out[i].score
       /\ i > 1 => ~Less(out[i], out[i - 1])

(* What the retrievers and the model said is kept.  Fusion names every id  *)
(* once and puts one that no list ranks lower, and no list misses, first;  *)
(* the reranker permutes by score, or not at all; a search returns the     *)
(* best stored messages once, in the order of the vector search or the     *)
(* newest with every keyword, and as many as were asked for when there are *)
(* as many candidates; a group's text is its newest messages in their      *)
(* order; a recall names a memory once, at its best score, none after one  *)
(* it should precede; a summary is never empty nor its importance off the  *)
(* scale (FuseRankedIDs, sortByScore, searchHistoryInvoker,                *)
(* RegisterSearchChatHistory, summarizeGroupInvoker, RecallMemory,         *)
(* SummarizeWithLLM).                                                      *)
ResultsFaithful ==
  /\ in.op = "fuse" => FusionMonotone
  /\ in.op = "rerank" => RerankSorted
  /\ in.op = "search" => SearchFaithful
  /\ in.op = "group" => GroupChronological
  /\ in.op = "recall" => RecallOrdered
  /\ in.op = "summary" => \A r \in Elements(out) : r.summary # "" /\ r.importance \in 0 .. 5
=============================================================================
