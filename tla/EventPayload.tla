----------------------------- MODULE EventPayload -----------------------------
(***************************************************************************)
(* What a dispatch carries: which stored webhooks make up a unit           *)
(* (bus/dedupe.py, build_dedupe_key), the one payload they are merged into *)
(* (merge_group_events), the attachments found in it and what becomes of   *)
(* each (bus/executors.py), and the request Hermes gets (agent/hermes.py). *)
(*                                                                         *)
(* Who may dispatch a unit, and when, is SpaceEvents: here a claimed unit  *)
(* is started once, at any time, while webhooks go on arriving.            *)
(*                                                                         *)
(* A payload is a function from the paths in it to nodes [kind, of]: the    *)
(* path of the payload itself is <<>>, the of of a "text" or a "flag" a     *)
(* string, of a "list" the sequence of its items.  JsonTrees checks that    *)
(* this reading of Python's nested dicts merges and searches as they do.    *)
(***************************************************************************)
EXTENDS Integers, FiniteSets, SequencesExt

CONSTANTS
    None,           \* no such thing
    Names,          \* the keys of dicts
    Items,          \* the values in lists
    Inside,         \* item -> the dicts in it, at any depth: functions of their keys
    Webhooks,       \* what Rails may post: records with the fields type, group,
                    \* event_id, id and data, and about, the message or the fact it tells
    MaxRows,        \* bounds the webhooks of a behaviour, redeliveries included
    Links,          \* the texts that are http or https addresses
    Settings        \* the environments: records with upload, prefetch, fallback
                    \* and max_attachments (HERMES_EVENT_*)

ASSUME BoundAssumption == MaxRows \in Nat

ASSUME LinkAssumption == None \notin Links

ASSUME SettingsAssumption ==
    \A s \in Settings :
        /\ {s.upload, s.prefetch, s.fallback} \subseteq BOOLEAN
        /\ s.max_attachments \in Int

\* What is nested is nested in dicts
IsPayload(data) ==
    /\ DOMAIN data \subseteq Seq(Names)
    /\ <<>> \in DOMAIN data /\ data[<<>>].kind = "dict"
    /\ \A path \in DOMAIN data :
          /\ data[path].kind \in {"dict", "list", "text", "flag", "null"}
          /\ data[path].kind = "list" => data[path].of \in Seq(Items)
          /\ \A n \in 0 .. Len(path) - 1 :
                SubSeq(path, 1, n) \in DOMAIN data /\ data[SubSeq(path, 1, n)].kind = "dict"

ASSUME WebhookAssumption == \A w \in Webhooks : IsPayload(w.data)

VARIABLES
    rows,           \* the stored webhooks in the order they came
    lead,           \* key -> the webhook that claimed it, which is the one queued
    run,            \* key -> its dispatch, once started
    settings        \* the environment, read once

vars == <<rows, lead, run, settings>>

-----------------------------------------------------------------------------
(* The key of a unit                                                       *)

Null == [kind |-> "null", of |-> "null"]

Field(data, key) == IF key \in DOMAIN data THEN data[key] ELSE Null

\* Blanks, flags and nulls identify nothing
AsText(value) == IF value.kind = "text" /\ value.of # "" THEN value.of ELSE None

Or(text, other) == IF text # None THEN text ELSE other

\* Mutant: only the payload is asked for the message
MessageInPayload(w) ==
    Or(AsText(Field(w.data, <<"content_payload", "message_id">>)),
       AsText(Field(w.data, <<"message_id">>)))

MessageIdOf(w) ==
    Or(AsText(Field(w.data, <<"content_payload", "message_id">>)),
       Or(AsText(Field(w.data, <<"message_id">>)), w.event_id))

RoomOf(w) == AsText(Field(w.data, <<"room_id">>))

MessageEventTypes == {"message_created", "message_attachment_uploaded", "ai_question_asked"}

IsMember(w) ==
    w.type \in MessageEventTypes /\ w.group # None /\ RoomOf(w) # None /\ MessageIdOf(w) # None

IdentityOf(w) == Or(w.id, Or(w.event_id, "-"))

\* The fingerprint of the other events is their data
Key(w) ==
    IF IsMember(w)
    THEN <<"message", w.group, RoomOf(w), MessageIdOf(w)>>
    ELSE <<"event", w.type, IdentityOf(w), w.data>>

\* The places where a webhook may name its message
NamedIds(w) ==
    {AsText(Field(w.data, <<"content_payload", "message_id">>)),
     AsText(Field(w.data, <<"message_id">>)), w.event_id} \ {None}

\* What Rails posts (dedupe.py:6): of a message, webhooks of its group that name its room
\* and, in one place at least and nowhere otherwise, the message; a fact is told again
\* only by the same event with the same payload
ASSUME RailsAssumption ==
    \A v, w \in Webhooks :
        /\ w.about[1] \in {"message", "fact"}
        /\ w.about[1] = "message" =>
              /\ w.type \in MessageEventTypes /\ w.group # None /\ RoomOf(w) # None
              /\ \E id \in NamedIds(w) :
                    NamedIds(w) = {id} /\ w.about = <<"message", w.group, RoomOf(w), id>>
        /\ w.about[1] = "fact" =>
              w.type \notin MessageEventTypes \/ w.group = None \/ RoomOf(w) = None \/ NamedIds(w) = {}
        /\ v.about[1] = "fact" /\ w.about[1] = "fact" =>
              (v.about = w.about <=>
                  v.type = w.type /\ IdentityOf(v) = IdentityOf(w) /\ v.data = w.data)

-----------------------------------------------------------------------------
(* The merged payload                                                      *)

\* Items that are there already are not added again
UnionLists(base, overlay) ==
    LET merged[i \in 0 .. Len(overlay)] ==
            IF i = 0 THEN base
            ELSE IF overlay[i] \in Range(merged[i - 1]) THEN merged[i - 1]
            ELSE Append(merged[i - 1], overlay[i])
    IN merged[Len(overlay)]

\* Mutant: what is null in the overlay is null
NullReplaces(old, new) ==
    IF old.kind = "list" /\ new.kind = "list"
    THEN [kind |-> "list", of |-> UnionLists(old.of, new.of)]
    ELSE new

\* Lists are united, a null hides nothing, anything else is replaced
MergedNode(old, new) ==
    CASE old.kind = "list" /\ new.kind = "list" ->
            [kind |-> "list", of |-> UnionLists(old.of, new.of)]
      [] new.kind = "null" -> old
      [] OTHER -> new

\* With a dict that is replaced goes what was in it
Replaced(overlay, path) ==
    \E above \in DOMAIN overlay :
        IsStrictPrefix(above, path) /\ overlay[above].kind \notin {"dict", "null"}

DeepMerge(base, overlay) ==
    [ path \in DOMAIN overlay \cup {p \in DOMAIN base : ~Replaced(overlay, p)} |->
        IF path \notin DOMAIN overlay THEN base[path]
        ELSE IF path \notin DOMAIN base THEN overlay[path]
        ELSE MergedNode(base[path], overlay[path]) ]

\* Lowest authority first
Rank(w) ==
    CASE w.type = "message_attachment_uploaded" -> 1
      [] w.type = "message_created" -> 2
      [] w.type = "ai_question_asked" -> 3
      [] OTHER -> 4

\* Rows are laid over data in the order in which they were stored
Overlay(data, some) ==
    LET merged[i \in 0 .. Len(rows)] ==
            IF i = 0 THEN data
            ELSE IF i \in some THEN DeepMerge(merged[i - 1], rows[i].data)
            ELSE merged[i - 1]
    IN merged[Len(rows)]

OfRank(members, rank) == {i \in members : Rank(rows[i]) = rank}

\* Mutant: the members are overlaid as they came
MergedAsStored(members, queued) == Overlay(queued.data, members)

\* The webhook that was queued is the base
MergedData(members, queued) ==
    Overlay(Overlay(Overlay(Overlay(queued.data,
            OfRank(members, 1)), OfRank(members, 2)), OfRank(members, 3)), OfRank(members, 4))

MergedType(members, queued) ==
    IF \E i \in members : rows[i].type = "ai_question_asked" THEN "ai_question_asked" ELSE queued.type

-----------------------------------------------------------------------------
(* The attachments in a payload                                            *)

\* The dict at a path, as a function of its keys
DictAt(data, path) ==
    [key \in {k \in Names : Append(path, k) \in DOMAIN data} |-> data[Append(path, key)]]

Dicts(data) ==
    {DictAt(data, path) : path \in {p \in DOMAIN data : data[p].kind = "dict"}} \cup
    UNION {UNION {Inside[item] : item \in Range(data[path].of)} :
               path \in {p \in DOMAIN data : data[p].kind = "list"}}

UrlKeys == <<"attachment_url", "file_url", "download_url", "url", "href", "src">>

Url(d) ==
    LET given == {i \in DOMAIN UrlKeys : AsText(Field(d, UrlKeys[i])) \in Links}
    IN IF given = {} THEN None ELSE AsText(Field(d, UrlKeys[Min(given)]))

Falsy == {Null, [kind |-> "flag", of |-> "false"], [kind |-> "text", of |-> ""]}

HasAttachment(d) == Field(d, "has_attachment") \notin Falsy

Reference(d) ==
    [ url |-> Url(d),
      message |-> Or(AsText(Field(d, "message_id")), AsText(Field(d, "id"))),
      room |-> AsText(Field(d, "room_id")) ]

Attachments(data) == {Reference(d) : d \in {e \in Dicts(data) : Url(e) # None \/ HasAttachment(e)}}

\* The limit is looked at only after one was taken
Limit == IF settings.max_attachments < 1 THEN 1 ELSE settings.max_attachments

\* The first ones up to the limit; which those are depends on the order of the keys,
\* left open here
Extracts(data) ==
    LET all == Attachments(data)
    IN IF Cardinality(all) <= Limit THEN {all}
       ELSE {some \in SUBSET all : Cardinality(some) = Limit}

-----------------------------------------------------------------------------
(* The actions                                                             *)

\* POST /space_events: every webhook is stored, the first of a key claims it
Receive(w) ==
    /\ Len(rows) < MaxRows
    /\ rows' = Append(rows, w)
    /\ lead' = [key \in DOMAIN lead \cup {Key(w)} |->
                   IF key \in DOMAIN lead THEN lead[key] ELSE Len(rows) + 1]
    /\ UNCHANGED <<run, settings>>

Members(key) == {i \in DOMAIN rows : Key(rows[i]) = key}

\* Up to the first await: the members are read, merged and searched for
\* attachments; without upload these are all left to the summary
Started(key, data, found) ==
    [ members |-> Members(key),
      type |-> MergedType(Members(key), rows[lead[key]]),
      data |-> data,
      found |-> found,
      left |-> IF settings.upload THEN found ELSE {},
      files |-> {},
      unresolved |-> IF settings.upload THEN {} ELSE found,
      named |-> {}, encoding |-> "none", errors |-> 0,
      stage |-> IF settings.upload /\ found # {} THEN "preparing" ELSE "ready" ]

Start(key) ==
    /\ key \notin DOMAIN run
    /\ LET data == MergedData(Members(key), rows[lead[key]])
       IN \E found \in Extracts(data) :
             run' = [k \in DOMAIN run \cup {key} |->
                        IF k = key THEN Started(key, data, found) ELSE run[k]]
    /\ UNCHANGED <<rows, lead, settings>>

Prepared(key, item, files, unresolved) ==
    run' = [run EXCEPT ![key].left = @ \ {item},
                       ![key].files = @ \cup files,
                       ![key].unresolved = @ \cup unresolved,
                       ![key].stage = IF run[key].left = {item} THEN "ready" ELSE "preparing"]

\* Something to ask for it by: W-space, by the message, or the link itself
CanFetch(item) == settings.prefetch /\ (item.message # None \/ item.url # None)

\* Mutant: a file is forgotten once it was asked for
DropFile(key) ==
    /\ run[key].stage = "preparing"
    /\ \E item \in run[key].left : CanFetch(item) /\ Prepared(key, item, {}, {})
    /\ UNCHANGED <<rows, lead, settings>>

\* It was downloaded, from W-space or else from its link
KeepFile(key) ==
    /\ run[key].stage = "preparing"
    /\ \E item \in run[key].left : CanFetch(item) /\ Prepared(key, item, {item}, {})
    /\ UNCHANGED <<rows, lead, settings>>

\* Nothing was tried, both downloads failed, or the file is above the limit
\* HERMES_EVENT_MAX_ATTACHMENT_BYTES
LeaveUnresolved(key) ==
    /\ run[key].stage = "preparing"
    /\ \E item \in run[key].left : Prepared(key, item, {}, {item})
    /\ UNCHANGED <<rows, lead, settings>>

\* How the body is encoded: files that were asked for and came to nothing are an
\* empty dict, not None, and leave the payload a form field
Encoding(r) ==
    IF ~settings.upload \/ r.found = {} THEN "json"
    ELSE IF r.files = {} THEN "form" ELSE "multipart"

\* Mutant: the summary is for calls without files
NamedIfNoFiles(r) == IF settings.fallback /\ r.files = {} THEN r.unresolved ELSE {}

\* What the summary in the message names
Named(r) == IF settings.fallback THEN r.unresolved ELSE {}

\* The call of Hermes, with the summary of what is not uploaded in the message
Send(key) ==
    /\ run[key].stage = "ready"
    /\ run' = [run EXCEPT ![key].stage = "sent",
                          ![key].named = Named(run[key]),
                          ![key].encoding = Encoding(run[key])]
    /\ UNCHANGED <<rows, lead, settings>>

Answer(key) ==
    /\ run[key].stage = "sent"
    /\ run' = [run EXCEPT ![key].stage = "answered"]
    /\ UNCHANGED <<rows, lead, settings>>

\* An HTTP error, of which a row of the API tells, or an answer that is no JSON
CallFails(key) ==
    /\ run[key].stage = "sent"
    /\ \E rowsLeft \in {0, 1} :
          run' = [run EXCEPT ![key].stage = "failed", ![key].errors = rowsLeft]
    /\ UNCHANGED <<rows, lead, settings>>

Init ==
    /\ rows = <<>>
    /\ lead = [key \in {} |-> 0]
    /\ run = [key \in {} |-> 0]
    /\ settings \in Settings

Dispatch(key) ==
    KeepFile(key) \/ LeaveUnresolved(key) \/ Send(key) \/ Answer(key) \/ CallFails(key)

Next ==
    \/ \E w \in Webhooks : Receive(w)
    \/ \E key \in DOMAIN lead : Start(key)
    \/ \E key \in DOMAIN run : Dispatch(key)

Spec == Init /\ [][Next]_vars

-----------------------------------------------------------------------------
(* Properties                                                              *)

\* Type correctness; the attachments found are shared out among those still to
\* be prepared, the files and the unresolved ones, none of them in two places
TypeOK ==
    /\ rows \in Seq(Webhooks) /\ Len(rows) <= MaxRows
    /\ settings \in Settings
    /\ DOMAIN run \subseteq DOMAIN lead
    /\ DOMAIN lead = {Key(w) : w \in Range(rows)}
    /\ \A key \in DOMAIN lead : lead[key] \in DOMAIN rows
    /\ \A key \in DOMAIN run :
          LET r == run[key]
          IN /\ r.members \subseteq DOMAIN rows
             /\ r.stage \in {"preparing", "ready", "sent", "answered", "failed"}
             /\ r.encoding \in {"none", "json", "form", "multipart"} /\ r.errors \in {0, 1}
             /\ r.left # {} <=> r.stage = "preparing"
             /\ r.found = r.left \cup r.files \cup r.unresolved
             /\ r.left \cap (r.files \cup r.unresolved) = {} /\ r.files \cap r.unresolved = {}
             /\ Cardinality(r.found) <= Limit

\* What a key tells apart: the webhooks with one key are about one message, or one fact
\* delivered again, and those about one message have one key, wherever their payload
\* names it; so a dispatch carries all that was stored of its message when it started,
\* and nothing of another one (dedupe.py:163, resolve_group_events)
CarriesItsUnit ==
    /\ \A i, j \in DOMAIN rows : Key(rows[i]) = Key(rows[j]) <=> rows[i].about = rows[j].about
    /\ \A key \in DOMAIN run :
          /\ lead[key] \in run[key].members
          /\ \E n \in DOMAIN rows :
                run[key].members = {i \in 1 .. n : rows[i].about = rows[lead[key]].about}

\* What a payload says: its texts and flags, and the items of its lists, each with the
\* path that leads to it; a null says nothing
Said(data) ==
    {[path |-> p, listed |-> FALSE, says |-> data[p]] :
        p \in {q \in DOMAIN data : data[q].kind \in {"text", "flag"}}} \cup
    UNION {{[path |-> p, listed |-> TRUE, says |-> item] : item \in Range(data[p].of)} :
               p \in {q \in DOMAIN data : data[q].kind = "list"}}

\* It says something else at that place, or where a dict has to be on the way there
Contradicts(data, fact) ==
    \E p \in DOMAIN data :
        /\ data[p].kind # "null"
        /\ \/ IsStrictPrefix(p, fact.path) /\ data[p].kind # "dict"
           \/ p = fact.path /\ IF fact.listed THEN data[p].kind # "list" ELSE data[p] # fact.says

\* Higher in rank, or of the same rank and stored later
Overrides(i, j) == Rank(rows[i]) > Rank(rows[j]) \/ (Rank(rows[i]) = Rank(rows[j]) /\ i > j)

\* What the members say, but for what one of them says otherwise that overrides them
Kept(members) ==
    UNION {{fact \in Said(rows[i].data) :
              ~ \E j \in members : Overrides(j, i) /\ Contradicts(rows[j].data, fact)} : i \in members}

\* One dispatch is at least as informative as that of any member (dedupe.py:525): the
\* payload says exactly what its members say, except where a member of a higher rank says
\* something else, whichever of them came first and whichever was queued; it is of the
\* routing type exactly when a member is
MergeKeepsAll ==
    \A key \in DOMAIN run :
        /\ Said(run[key].data) = Kept(run[key].members)
        /\ run[key].type = "ai_question_asked" <=>
              \E i \in run[key].members : rows[i].type = "ai_question_asked"

\* The links for attachments that a fact gives
LinksOf(fact) ==
    IF fact.listed THEN {Url(d) : d \in Inside[fact.says]} \ {None}
    ELSE IF \E k \in Range(UrlKeys) : fact.path = Append(Front(fact.path), k)
    THEN {AsText(fact.says)} \cap Links
    ELSE {}

\* With the fallback on, whatever fails on the way, every link that a member of the unit
\* gives for an attachment, and none overrules, reaches Hermes, as a file or in the
\* message, and as one of them only, unless the limit of attachments was reached; of
\* several links in one dict, one does (executors.py:252)
AttachmentsReachHermes ==
    \A key \in DOMAIN run :
        run[key].encoding # "none" /\ settings.fallback =>
            LET r == run[key]
                facts == Kept(r.members)
                reached == {item.url : item \in r.files \cup r.named}
            IN /\ r.files \cap r.named = {}
               /\ \/ Cardinality(r.files \cup r.named) >= settings.max_attachments
                  \/ \A fact \in facts :
                        \/ LinksOf(fact) \subseteq reached
                        \/ ~fact.listed /\ \E other \in facts :
                              /\ ~other.listed /\ Front(other.path) = Front(fact.path)
                              /\ LinksOf(other) \cap reached # {}

=============================================================================
