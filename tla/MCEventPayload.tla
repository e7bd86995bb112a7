---------------------------- MODULE MCEventPayload ----------------------------
(***************************************************************************)
(* An instance of EventPayload for TLC, with payloads shaped like those of *)
(* src/tests/test_space_event_dedupe.py and test_hermes_file_support.py.   *)
(***************************************************************************)
EXTENDS JsonTrees

Text(t) == [kind |-> "text", of |-> t]
Flag(b) == [kind |-> "flag", of |-> IF b THEN "true" ELSE "false"]
List(items) == [kind |-> "list", of |-> items]
Dict(f) == [kind |-> "dict", of |-> f]

Post(type, group, event_id, id, about, data) ==
    [type |-> type, group |-> group, event_id |-> event_id, id |-> id, about |-> about, data |-> data]

Message(id) == <<"message", "g1", "r1", id>>

\* A message with a file that asks a bot: only one payload names the file, only one
\* the bot, and the upload does not name the message but by the event's id; they
\* disagree on the sender, in kind, and on the content
Created ==
    Post("message_created", "g1", "m1", "63", Message("m1"),
         Dict([ room_id |-> Text("r1"), content |-> Text("see file"), sender |-> Dict([name |-> Text("ann")]),
                has_attachment |-> Flag(TRUE), filename |-> Null, bot_user_ids |-> Text(""),
                content_payload |->
                     Dict([message_id |-> Text("m1"), labels |-> List(<<Text("a")>>),
                           files |-> List(<<Dict([url |-> Text("http://b"), name |-> Text("b")])>>)]) ]))

Uploaded ==
    Post("message_attachment_uploaded", "g1", "m1", "65", Message("m1"),
         Dict([ room_id |-> Text("r1"), content |-> Text("uploaded"), sender |-> Text("ann"),
                has_attachment |-> Flag(TRUE), filename |-> Text("a.pdf"),
                attachment_url |-> Text("http://a"), content_payload |-> Null ]))

\* The other link in the same dict as the file's is the one that is not taken
Asked ==
    Post("ai_question_asked", "g1", "m1", "64", Message("m1"),
         Dict([ room_id |-> Text("r1"), content |-> Text("what now?"), message_id |-> Text("m1"),
                href |-> Text("http://b"), sender |-> Null, bot_user_ids |-> List(<<Text("7")>>),
                content_payload |-> Dict([labels |-> List(<<Text("b"), Text("a"), Text("b")>>),
                                          text |-> Text("what now?")]) ]))

\* Another message of the same action, in the same room
Second ==
    Post("message_created", "g1", "m2", "66", Message("m2"),
         Dict([room_id |-> Text("r1"), content |-> Text("and this"), attachment_url |-> Text("no link")]))

\* Two facts that share their group and their event id
AccountSettings ==
    Post("account_settings_updated", "g2", "1", None, <<"fact", "settings">>,
         Dict([content |-> Text("Account settings updated")]))

AccountAccess ==
    Post("account_settings_updated", "g2", "1", None, <<"fact", "access">>,
         Dict([content |-> Text("Account settings updated"), allowed_bot_user_ids |-> List(<<Text("2")>>)]))

Posts == {Created, Uploaded, Asked, Second, AccountSettings, AccountAccess}

MCTrees == {w.data : w \in Posts}

MCWebhooks == {[w EXCEPT !.data = Flat(@)] : w \in Posts}

MCNames == UNION {UNION {Range(path) : path \in PathsIn(tree)} : tree \in MCTrees}

MCItems ==
    UNION {UNION {Range(node.of) : node \in {n \in Range(Flat(tree)) : n.kind = "list"}} : tree \in MCTrees}

MCInside == [item \in MCItems |-> DictsIn(item)]

Setting(upload, prefetch, fallback, limit) ==
    [upload |-> upload, prefetch |-> prefetch, fallback |-> fallback, max_attachments |-> limit]

\* The defaults; upload with and without download; the limit at its edges
MCSettings ==
    { Setting(FALSE, FALSE, TRUE, 5), Setting(TRUE, TRUE, TRUE, 5), Setting(TRUE, FALSE, TRUE, 1),
      Setting(TRUE, TRUE, FALSE, 0) }

=============================================================================
