---------------------------- MODULE ContextPacket ----------------------------
(***************************************************************************)
(* The context of an AI operation, from the page that compiles it to the   *)
(* host that lets it go to a model.                                        *)
(*                                                                         *)
(* The host collects candidates from the project (operation_context.rs):   *)
(* the target and the text around it, the structure, summaries of the      *)
(* chapter, its ancestors and the project, knowledge and style samples.    *)
(* The page compiles them into a packet within a budget of tokens          *)
(* (kernel/src/context-compiler.ts) and shows it to the user.  Before a    *)
(* request goes out the host collects again, compiles again on its own,    *)
(* and refuses a packet that is not, entry for entry, the one it would     *)
(* have made (confirmed_context.rs).  The two compilers are written        *)
(* separately here, as they are in the code.  Then the page sends a second *)
(* command to let the request go, and the host looks at the head once      *)
(* more.  Between any two of these the project may change: autosave, the   *)
(* summary worker that the page wakes by timer, another window.            *)
(*                                                                         *)
(* Abstractions.  A chapter is a document with one block.  The content of  *)
(* a candidate is its source and the version of it; its length is given    *)
(* per kind.  Hashes and identities are equality of candidates.  Ids are   *)
(* numbers in the order of their source references.  It is one order here: *)
(* the page compares references by localeCompare, the host byte by byte,   *)
(* and for the hexadecimal ids that are generated these agree in most      *)
(* locales only.  Candidates are a set: both compilers sort them by an     *)
(* order that leaves no ties.  Summaries of blocks are never context.      *)
(***************************************************************************)
EXTENDS Naturals, FiniteSets, SequencesExt

CONSTANTS
    Chapters,      \* documents, numbers
    Parent,        \* of each chapter, or NoChapter
    Knowledge,     \* ids of knowledge items, numbers
    Styles,        \* ids of style samples, numbers
    NeverSend,     \* items whose sensitivity is never_send
    Lengths,       \* candidate lengths in tokens, by kind: the projects considered
    InputBudget,   \* tokens left for the packet, by operation type
    Asks,          \* what may be asked: type, remote, and what of "prefix" and
                   \* "suffix" is around the selection
    MaxHead,       \* bound: commits
    MaxRevision,   \* bound: revision of an item
    MaxAttempts,   \* maxAttempts of the retry policy
    MaxEntries,    \* MAX_PACKET_ENTRIES: items and exclusions of a packet
    NoChapter, NoPacket

ItemIds == Knowledge \cup Styles
OperationTypes == {"polish", "critique"}

Kinds == {"target", "prefix", "suffix", "structure", "knowledge", "style", "chapter", "whole"}

ASSUME ContextConstants ==
    /\ Chapters \subseteq Nat \ {0} /\ IsFiniteSet(Chapters)
    /\ Parent \in [Chapters -> Chapters \cup {NoChapter}]
    /\ ItemIds \subseteq Nat /\ IsFiniteSet(ItemIds)
    /\ NeverSend \subseteq ItemIds
    /\ Lengths \subseteq [Kinds -> Nat]
    /\ InputBudget \in [OperationTypes -> Nat]
    /\ Asks \subseteq [ type : OperationTypes, remote : BOOLEAN,
                       around : SUBSET {"prefix", "suffix"} ]
    /\ MaxEntries \in Nat

VARIABLES
    head,       \* the number of the head commit
    textRev,    \* revision of each chapter's block
    docRev,     \* revision of each chapter's document
    summary,    \* summary_record: the commit it is bound to, 0 if there is none
    queued,     \* invalidation: the commit that made it, 0 if there is none
    item,       \* status and revision of knowledge items and style samples
    length,     \* length of each kind of candidate; does not change
    op          \* the operation of the page

cpVars == <<head, textRev, docRev, summary, queued, item, length, op>>

projectVars == <<head, textRev, docRev, summary, queued, item>>

-----------------------------------------------------------------------------
(* Candidates *)

Project == 0
Scopes == Chapters \cup {Project}

Tiers == 1 .. 5   \* L0_TARGET, L1_LOCAL, L2_STRUCTURAL, L3_KNOWLEDGE, L4_STYLE_GLOBAL

\* Tier, authority, and relevance and proximity in hundredths; selected by the user.
Of(tier, authority, relevance, proximity, selected) ==
    [ tier |-> tier, authority |-> authority, relevance |-> relevance,
      proximity |-> proximity, selected |-> selected ]

Traits ==
    [ target    |-> Of(1, "user_confirmed", 100, 100, TRUE),
      prefix    |-> Of(2, "source_derived", 90, 100, FALSE),
      suffix    |-> Of(2, "source_derived", 90, 100, FALSE),
      structure |-> Of(3, "source_derived", 80, 100, FALSE),
      knowledge |-> Of(4, "user_confirmed", 92, 50, TRUE),
      style     |-> Of(5, "user_confirmed", 80, 25, TRUE),
      chapter   |-> Of(3, "source_derived", 90, 90, FALSE),
      whole     |-> Of(4, "source_derived", 65, 35, FALSE) ]

\* The byte order of source references: block:, document:, knowledge:, style:,
\* summary:document:, summary:project:.
RefPlace ==
    [ target |-> 1, prefix |-> 2, suffix |-> 3, structure |-> 4, knowledge |-> 5,
      style |-> 6, chapter |-> 7, whole |-> 8 ]

RefBefore(c, d) ==
    \/ RefPlace[c.kind] < RefPlace[d.kind]
    \/ c.kind = d.kind /\ c.id < d.id

Candidate(kind, id, version, commit, status) ==
    [kind |-> kind, id |-> id, version |-> version, commit |-> commit, status |-> status]

\* The document of the target and its ancestors.
Path[c \in Chapters] == {c} \cup IF Parent[c] = NoChapter THEN {} ELSE Path[Parent[c]]

\* get_ready_summary_record: nothing while the scope is queued.
Ready(s) == summary[s] # 0 /\ queued[s] = 0

\* summary_context.
SummaryContext(target) ==
    LET candidate(kind, s) == Candidate(kind, s, summary[s], summary[s], "canonical")
        above == {s \in Chapters : s \in Path[target] /\ Ready(s)}
    IN  {candidate("chapter", s) : s \in above}
          \cup {candidate("whole", s) : s \in {x \in {Project} : Ready(x)}}

KnowledgeContext ==
    {Candidate("knowledge", k, item[k].revision, head, "canonical") :
        k \in {x \in Knowledge : item[x].status = "canonical"}}

StyleContext ==
    {Candidate("style", s, item[s].revision, head, item[s].status) :
        s \in {x \in Styles : item[x].status # "absent"}}

\* collect_operation_context.
Collected(target, around) ==
    {Candidate(kind, target, textRev[target], head, "canonical") : kind \in {"target"} \cup around}
    \cup {Candidate("structure", target, docRev[target], head, "canonical")}
    \cup SummaryContext(target) \cup KnowledgeContext \cup StyleContext

\* The target has not changed since the page read it.
IsBound(o) == o.head = head /\ o.textRev = textRev[o.target]

Mandatory(c) == c.kind = "target"
Tier(c) == Traits[c.kind].tier

\* Text, structure and summaries are local_sensitive.
IsPrivate(c) == c.kind \in {"knowledge", "style"} /\ c.id \in NeverSend

\* A tier's share of the budget, in hundredths.
TierCap(fractions, type, tier) == (InputBudget[type] * fractions[type][tier]) \div 100

\* The tokens of some candidates, one by one, to count them.
Tokens(items) == UNION {{c} \X (1 .. length[c.kind]) : c \in items}
Total(items) == Cardinality(Tokens(items))

\* A list of candidates, each given with the number of those that go before it.
InOrder(placed) ==
    [n \in 1 .. Cardinality(placed) |-> (CHOOSE p \in placed : p[1] = n - 1)[2]]

ByReference(S) == {<<Cardinality({d \in S : RefBefore(d, c)}), c>> : c \in S}

-----------------------------------------------------------------------------
(* The page: context-compiler.ts *)

\* tierFractions of the operation profiles.
ProfileFractions ==
    [polish |-> <<45, 35, 8, 4, 8>>, critique |-> <<15, 10, 35, 25, 15>>]

PageExclusion(c, remote) ==
    CASE c.status \in {"archived", "rejected", "deleted"} -> "INELIGIBLE_STATUS"
      [] c.status = "draft" /\ ~Traits[c.kind].selected -> "DRAFT_NOT_SELECTED"
      [] remote /\ IsPrivate(c) -> "POLICY_DENIED"
      [] OTHER -> "none"

PageScore ==
    [kind \in Kinds |->
        LET t == Traits[kind] IN
        100 * (<<100, 80, 65, 50, 35>>)[t.tier] + 30 * t.relevance + 20 * t.proximity
          + 15 * (IF t.authority = "user_confirmed" THEN 100 ELSE 75) + 1000
          + IF t.selected THEN 2500 ELSE 0]

PageBefore(c, d) ==
    \/ Mandatory(c) /\ ~Mandatory(d)
    \/ /\ Mandatory(c) = Mandatory(d)
       /\ PageScore[c.kind] > PageScore[d.kind]
    \/ /\ Mandatory(c) = Mandatory(d)
       /\ PageScore[c.kind] = PageScore[d.kind]
       /\ \/ Tier(c) < Tier(d)
          \/ Tier(c) = Tier(d) /\ RefBefore(c, d)

TierFirst(c, d) == Tier(c) < Tier(d) \/ (Tier(c) = Tier(d) /\ PageBefore(c, d))

ByScore(S) == {<<Cardinality({d \in S : PageBefore(d, c)}), c>> : c \in S}
ByTier(S) == {<<Cardinality({d \in S : TierFirst(d, c)}), c>> : c \in S}

FitsStrictly(used, c, type) == used + length[c.kind] < InputBudget[type]   \* mutant
\* The comparison with the whole budget, on the page.
Fits(used, c, type) == used + length[c.kind] <= InputBudget[type]

NoTierBorrow == FALSE   \* mutant
\* allowTierBorrow of every profile.
AllowTierBorrow == TRUE

Selects(acc, c) ==
    [acc EXCEPT !.selected = @ \cup {c}, !.used = @ + length[c.kind],
                !.share[Tier(c)] = @ + length[c.kind]]

LeavesOut(acc, c, reason) == [acc EXCEPT !.why[c] = reason]

\* One turn of the first two loops; what is mandatory comes first.
Offer(type, acc, c) ==
    CASE Mandatory(c) -> Selects(acc, c)
      [] ~Mandatory(c) /\ ~Fits(acc.used, c, type) -> LeavesOut(acc, c, "TOTAL_BUDGET")
      [] /\ ~Mandatory(c) /\ Fits(acc.used, c, type)
         /\ acc.share[Tier(c)] + length[c.kind] <= TierCap(ProfileFractions, type, Tier(c))
              -> Selects(acc, c)
      [] OTHER -> [acc EXCEPT !.deferred = @ \cup {c}]

Offers(type, ranked, start) ==
    LET after[n \in 0 .. Len(ranked)] ==
            IF n = 0 THEN start ELSE Offer(type, after[n - 1], ranked[n])
    IN  after[Len(ranked)]

\* One turn of the loop over the deferred ones.
OfferAgain(type, acc, c) ==
    CASE c \notin acc.deferred -> acc
      [] c \in acc.deferred /\ AllowTierBorrow /\ Fits(acc.used, c, type) -> Selects(acc, c)
      [] OTHER -> LeavesOut(acc, c, IF AllowTierBorrow THEN "TOTAL_BUDGET" ELSE "TIER_BUDGET")

OffersAgain(type, ranked, start) ==
    LET after[n \in 0 .. Len(ranked)] ==
            IF n = 0 THEN start ELSE OfferAgain(type, after[n - 1], ranked[n])
    IN  after[Len(ranked)]

\* What the loops start from: why a candidate is out, "none" while it is not.
Unoffered(candidates, remote) ==
    [ selected |-> {}, deferred |-> {}, used |-> 0, share |-> [tier \in Tiers |-> 0],
      why |-> [c \in candidates |-> PageExclusion(c, remote)] ]

\* ContextCompiler.compile, or NoPacket when what is mandatory does not fit.
Compile(candidates, type, remote) ==
    LET scored == {c \in candidates : PageExclusion(c, remote) = "none"}
        ranked == InOrder(ByScore(scored))
        done == OffersAgain(type, ranked, Offers(type, ranked, Unoffered(candidates, remote)))
        excluded == {c \in candidates : done.why[c] # "none"}
        exclusions == InOrder(ByReference(excluded))
    IN  IF Total({c \in scored : Mandatory(c)}) > InputBudget[type] THEN NoPacket
        ELSE [ budget |-> InputBudget[type], used |-> done.used,
               items |-> InOrder(ByTier(done.selected)),
               exclusions |-> [i \in DOMAIN exclusions |->
                    [of |-> exclusions[i], reason |-> done.why[exclusions[i]]]] ]

-----------------------------------------------------------------------------
(* The host: confirmed_context.rs *)

TierFractions == [polish |-> <<45, 35, 8, 4, 8>>, critique |-> <<15, 10, 35, 25, 15>>]

RequiredExclusion(c, remote) ==
    CASE c.status \in {"archived", "rejected", "deleted"} -> "INELIGIBLE_STATUS"
      [] c.status = "draft" /\ ~Traits[c.kind].selected -> "DRAFT_NOT_SELECTED"
      [] remote /\ IsPrivate(c) -> "POLICY_DENIED"
      [] OTHER -> "none"

\* rounded_score, in hundredths.
RoundedScore ==
    LET weight == <<100, 80, 65, 50, 35>>
        authority == [user_confirmed |-> 100, source_derived |-> 75]
    IN  [kind \in Kinds |->
            LET t == Traits[kind] IN
            100 * weight[t.tier] + 30 * t.relevance + 20 * t.proximity
              + 15 * authority[t.authority] + 10 * 100 + (IF t.selected THEN 25 * 100 ELSE 0)]

OfferKey(c) == <<IF Mandatory(c) THEN 0 ELSE 1, 100000 - RoundedScore[c.kind], Tier(c)>>

KeyBefore(k, l) == \E i \in 1 .. 3 : k[i] < l[i] /\ \A j \in 1 .. i - 1 : k[j] = l[j]

\* The order in which candidates are offered, and the order of the packet.
Offered(c, d) ==
    \/ KeyBefore(OfferKey(c), OfferKey(d))
    \/ OfferKey(c) = OfferKey(d) /\ RefBefore(c, d)

InPacketOrder(c, d) == Tier(c) < Tier(d) \/ (Tier(c) = Tier(d) /\ Offered(c, d))

OfferOrder(S) == {<<Cardinality({d \in S : Offered(d, c)}), c>> : c \in S}
PacketOrder(S) == {<<Cardinality({d \in S : InPacketOrder(d, c)}), c>> : c \in S}

Takes(s, c) == [ s EXCEPT !.taken = @ \cup {c}, !.used = @ + length[c.kind],
                          !.tierUsed[Tier(c)] = @ + length[c.kind] ]

Room(s, c, type) == s.used + length[c.kind] <= InputBudget[type]

InShare(s, c, type) ==
    s.tierUsed[Tier(c)] + length[c.kind] <= TierCap(TierFractions, type, Tier(c))

\* The first pass: a candidate that does not fit is left out for good, one
\* within its tier's share is taken, the others are put off.
FirstTurn(s, c, type) ==
    CASE Mandatory(c) \/ (Room(s, c, type) /\ InShare(s, c, type)) -> Takes(s, c)
      [] ~Mandatory(c) /\ Room(s, c, type) /\ ~InShare(s, c, type)
            -> [s EXCEPT !.later = @ \cup {c}]
      [] OTHER -> s

FirstPass(eligible, type) ==
    LET nothing == [taken |-> {}, later |-> {}, used |-> 0, tierUsed |-> [tier \in Tiers |-> 0]]
        after[n \in 0 .. Len(eligible)] ==
            IF n = 0 THEN nothing ELSE FirstTurn(after[n - 1], eligible[n], type)
    IN  after[Len(eligible)]

\* The second: those put off that fit are taken.
SecondTurn(s, c, type) == IF c \in s.later /\ Room(s, c, type) THEN Takes(s, c) ELSE s

SecondPass(first, eligible, type) ==
    LET after[n \in 0 .. Len(eligible)] ==
            IF n = 0 THEN first ELSE SecondTurn(after[n - 1], eligible[n], type)
    IN  after[Len(eligible)]

\* expected_compilation.
Expected(candidates, type, remote) ==
    LET eligible == {c \in candidates : RequiredExclusion(c, remote) = "none"}
        offered == InOrder(OfferOrder(eligible))
        taken == SecondPass(FirstPass(offered, type), offered, type).taken
        out == InOrder(ByReference(candidates \ taken))
        reason(c) == IF c \in eligible THEN "TOTAL_BUDGET" ELSE RequiredExclusion(c, remote)
    IN  [ items |-> InOrder(PacketOrder(taken)),
          exclusions |-> [i \in DOMAIN out |-> [of |-> out[i], reason |-> reason(out[i])]] ]

\* validate_candidate_coverage: every candidate the project has now is accounted
\* for, as expected and in the expected order.
Accounts(o, candidates) ==
    LET expected == Expected(candidates, o.ask.type, o.ask.remote) IN
    /\ Total({c \in candidates : Mandatory(c)}) <= InputBudget[o.ask.type]
    /\ o.packet.items = expected.items
    /\ o.packet.exclusions = expected.exclusions
    /\ o.packet.used = Total(ToSet(o.packet.items))

\* validate_budget.
InBudget(packet) ==
    /\ \E c \in ToSet(packet.items) : Mandatory(c)
    /\ packet.used <= packet.budget

\* validate_model_prompt: the budget is that of the operation asked for.
PromptAgrees(o) == o.packet.budget = InputBudget[o.ask.type]

\* The size validate_packet_binding allows.
FewEntries(packet) == Len(packet.items) + Len(packet.exclusions) <= MaxEntries

\* Mutant of Confirms: the packet is looked at, the project is not.
ConfirmsPacketOnly(o) ==
    IsBound(o) /\ FewEntries(o.packet) /\ InBudget(o.packet) /\ PromptAgrees(o)

\* ModelRequestBinding::validate and confirm_context_packet.
Confirms(o) ==
    /\ IsBound(o)
    /\ FewEntries(o.packet)
    /\ Accounts(o, Collected(o.target, o.ask.around))
    /\ InBudget(o.packet)
    /\ PromptAgrees(o)

-----------------------------------------------------------------------------
(* An operation of the page *)

Idle == [stage |-> "idle"]

Begin ==
    /\ op = Idle
    /\ \E target \in Chapters, ask \in Asks :
          op' = [ stage |-> "begun", target |-> target, head |-> head,
                  textRev |-> textRev[target], ask |-> ask, packet |-> NoPacket, attempts |-> 0 ]
    /\ UNCHANGED <<projectVars, length>>

\* validateHostOperationContext, of every candidate.
WellFormed(candidates, base) == \A c \in candidates : c.commit = base

\* get_operation_context answers, the page looks at the answer, and the compiler
\* runs; any failure ends the operation.
Collect ==
    LET candidates == Collected(op.target, op.ask.around)
        packet == Compile(candidates, op.ask.type, op.ask.remote)
    IN  /\ op.stage = "begun"
        /\ op' = IF /\ IsBound(op)
                    /\ WellFormed(candidates, op.head)
                    /\ packet # NoPacket
                 THEN [op EXCEPT !.stage = "packed", !.packet = packet]
                 ELSE Idle
        /\ UNCHANGED <<projectVars, length>>

\* authorize_model_request, for the first attempt or a retry; refused, the
\* operation ends.
Authorize ==
    /\ op.stage = "packed"
    /\ op.attempts < MaxAttempts
    /\ op' = IF Confirms(op) THEN [op EXCEPT !.stage = "authorized"] ELSE Idle
    /\ UNCHANGED <<projectVars, length>>

AtAnyHead(o) == TRUE   \* mutant
\* take_authorized_request: the head is the commit the packet was compiled at.
AtItsHead(o) == o.head = head

\* execute_authorized_model_stream: the request goes out, or the operation ends.
Execute ==
    /\ op.stage = "authorized"
    /\ op' = IF AtItsHead(op) THEN [op EXCEPT !.stage = "packed", !.attempts = @ + 1] ELSE Idle
    /\ UNCHANGED <<projectVars, length>>

\* The user declines the packet or aborts, the authorization expires, or the
\* operation is over.
End ==
    /\ op.stage \in {"packed", "authorized"}
    /\ op' = Idle
    /\ UNCHANGED <<projectVars, length>>

-----------------------------------------------------------------------------
(* The project *)

Invalidated(scopes) == [s \in Scopes |-> IF s \in scopes THEN head + 1 ELSE queued[s]]

\* save_block: the block, its document, and the summaries of both.
Save(c) ==
    /\ head < MaxHead
    /\ head' = head + 1
    /\ textRev' = [textRev EXCEPT ![c] = @ + 1]
    /\ docRev' = [docRev EXCEPT ![c] = @ + 1]
    /\ queued' = Invalidated({c, Project})
    /\ UNCHANGED <<summary, item, length, op>>

\* rename_document: the document, and the summary of its parent too.
Rename(c) ==
    /\ head < MaxHead
    /\ head' = head + 1
    /\ docRev' = [docRev EXCEPT ![c] = @ + 1]
    /\ queued' = Invalidated({c, Project} \cup ({Parent[c]} \cap Chapters))
    /\ UNCHANGED <<textRev, summary, item, length, op>>

\* put_summary_record; refresh_summaries takes documents before the project.
\* A refresh may end after any summary.
Summarize(s) ==
    /\ queued[s] # 0
    /\ s = Project => \A c \in Chapters : queued[c] = 0
    /\ summary' = [summary EXCEPT ![s] = queued[s]]
    /\ queued' = [queued EXCEPT ![s] = 0]
    /\ UNCHANGED <<head, textRev, docRev, item, length, op>>

NewItem == [status |-> "canonical", revision |-> 0]

CreateKnowledgeItem(k) ==
    /\ item[k].status = "absent"
    /\ item' = [item EXCEPT ![k] = NewItem]
    /\ UNCHANGED <<head, textRev, docRev, summary, queued, length, op>>

CreateStyleSample(s) ==
    /\ item[s].status = "absent"
    /\ item' = [item EXCEPT ![s] = NewItem]
    /\ UNCHANGED <<head, textRev, docRev, summary, queued, length, op>>

KnowledgeStatuses == {"canonical", "archived", "rejected"}
StyleStatuses == {"canonical", "archived"}

\* The same status again changes nothing.
Revised(i, status) ==
    /\ item[i].status \notin {"absent", status}
    /\ item[i].revision < MaxRevision
    /\ item' = [item EXCEPT ![i] = [status |-> status, revision |-> @.revision + 1]]

SetKnowledgeItemStatus(k) ==
    /\ \E status \in KnowledgeStatuses : Revised(k, status)
    /\ UNCHANGED <<head, textRev, docRev, summary, queued, length, op>>

SetStyleSampleStatus(s) ==
    /\ \E status \in StyleStatuses : Revised(s, status)
    /\ UNCHANGED <<head, textRev, docRev, summary, queued, length, op>>

\* A new project: nothing is summarized, every scope is queued.
CpInit ==
    /\ head = 1
    /\ textRev = [c \in Chapters |-> 0]
    /\ docRev = [c \in Chapters |-> 0]
    /\ summary = [s \in Scopes |-> 0]
    /\ queued = [s \in Scopes |-> 1]
    /\ item = [i \in ItemIds |-> [status |-> "absent", revision |-> 0]]
    /\ length \in Lengths
    /\ op = Idle

CpNext ==
    \/ Begin
    \/ Collect
    \/ Authorize
    \/ Execute
    \/ End
    \/ \E c \in Chapters : Save(c) \/ Rename(c)
    \/ \E s \in Scopes : Summarize(s)
    \/ \E k \in Knowledge : CreateKnowledgeItem(k) \/ SetKnowledgeItemStatus(k)
    \/ \E s \in Styles : CreateStyleSample(s) \/ SetStyleSampleStatus(s)

CpSpec == CpInit /\ [][CpNext]_cpVars

-----------------------------------------------------------------------------
(* Properties *)

\* A packet the user is shown goes out if the project stays as it is: what the
\* page would compile now is what the host compiles from the same candidates, to
\* the order of the exclusions.  They are two programs in two languages; where
\* they differ, the operation fails however often it is tried.  So it does with
\* a packet of more entries than the host allows: the page knows no such limit.
UndisturbedPacketIsConfirmed ==
    (op.stage = "begun" /\ IsBound(op)) =>
        LET packet == Compile(Collected(op.target, op.ask.around), op.ask.type, op.ask.remote)
        IN  packet # NoPacket /\ FewEntries(packet)
                => Confirms([op EXCEPT !.packet = packet])

\* What the project says of a candidate now.
IsCurrent(c, o) ==
    CASE c.kind \in {"target", "prefix", "suffix"}
              -> c.id = o.target /\ c.version = textRev[c.id]
      [] c.kind = "structure" -> c.id = o.target /\ c.version = docRev[c.id]
      [] c.kind \in {"chapter", "whole"} -> c.version = summary[c.id] /\ queued[c.id] = 0
      [] OTHER -> /\ item[c.id] = [status |-> "canonical", revision |-> c.version]
                  /\ o.ask.remote => c.id \notin NeverSend

\* Whatever is authorized is what the project holds at that moment: no text,
\* summary or item that was replaced, archived or rejected while the user looked
\* at the packet or the page waited to retry, and nothing private to a remote
\* model (confirm_context_packet collects and compiles again).
AuthorizedIsCurrent ==
    [][(op.stage = "packed" /\ op'.stage = "authorized")
          => \A c \in ToSet(op.packet.items) : IsCurrent(c, op)]_cpVars

\* What then goes out is still current as far as the head tells: the text, the
\* structure and the summaries, and nothing private to a remote model.  Items are
\* left out: one that is archived or rejected between the two commands still goes
\* out, for that does not move the head, and execution looks at nothing else.
SentIsCurrent ==
    [][(op.stage = "authorized" /\ op'.stage = "packed")
          => \A c \in ToSet(op.packet.items) :
                /\ c.kind \notin {"knowledge", "style"} => IsCurrent(c, op)
                /\ ~(op.ask.remote /\ IsPrivate(c))]_cpVars

\* The packet is within the budget, has the target, and could take nothing more
\* that it was allowed to: no candidate is left out for room that was there.
NothingMoreFits ==
    op.stage \in {"packed", "authorized"} =>
        LET used == Total(ToSet(op.packet.items)) IN
        /\ used <= InputBudget[op.ask.type]
        /\ \E c \in ToSet(op.packet.items) : c.kind = "target"
        /\ \A x \in ToSet(op.packet.exclusions) :
              \/ x.of.status # "canonical"
              \/ op.ask.remote /\ x.of.id \in NeverSend /\ x.of.kind \in {"knowledge", "style"}
              \/ used + length[x.of.kind] > InputBudget[op.ask.type]

\* What the host offers as context at the head commit, the page takes.  A summary
\* carries the commit that last invalidated its scope, and commits of other
\* chapters leave it as it is (ADR 0020:20).
HostContextIsWellFormed ==
    (op.stage = "begun" /\ IsBound(op)) => WellFormed(Collected(op.target, op.ask.around), op.head)

=============================================================================
