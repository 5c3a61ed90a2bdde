------------------------------- MODULE MCSite -------------------------------
(***************************************************************************)
(* Instances of Site: teams that belong to a coach, members nested under   *)
(* them, badges linked to them - the models of the framework's own tests - *)
(* and one variation of a declaration each.                                *)
(***************************************************************************)
EXTENDS Site

ColumnOf(name, type) ==
  [name |-> name, type |-> type, null |-> FALSE, default |-> "none", unique |-> FALSE,
   ref |-> None, gone |-> "refuse", ui |-> {}, slug |-> None]
Key == ColumnOf("id", "id")
Text(name) == ColumnOf(name, "text")
Ref(name, struct, gone) == [ColumnOf(name, "int") EXCEPT !.ref = struct, !.gone = gone]
State == [Text("state") EXCEPT !.default = "literal", !.ui = {"readonly"}]
Slug == [Text("slug") EXCEPT !.unique = TRUE, !.slug = "name"]
ModelWith(struct, table, cols) ==
  [struct |-> struct, table |-> table, cols |-> <<Key>> \o cols, permission |-> None, path |-> None,
   public |-> None, api |-> FALSE, disabled |-> FALSE, no |-> {}, title |-> None, owner |-> None,
   parent |-> None, link |-> None, order |-> None, publicOrder |-> None, actions |-> {},
   nav |-> "default", publicNav |-> FALSE, relations |-> {}]
Showing(field, column, struct, with) ==
  [field |-> field, column |-> column, target |-> struct, show |-> TRUE, list |-> TRUE, with |-> with]

Team == [ModelWith("Team", "teams",
           <<ColumnOf("coach", "int"), [Text("name") EXCEPT !.ui = {"search"}], Slug, State,
             [Ref("badge", "Badge", "null") EXCEPT !.null = TRUE]>>)
         EXCEPT !.owner = "coach", !.actions = {"lock", "archive"}]
Member == [ModelWith("Member", "members", <<Ref("team", "Team", "cascade"), Text("name"), State>>)
           EXCEPT !.parent = "team", !.actions = {"promote"},
                  !.relations = {Showing("of", "team", "Team", {})}]
Badge == [ModelWith("Badge", "badges", <<Text("name"), State>>) EXCEPT !.actions = {"retire"}]
Award == [ModelWith("Award", "awards", <<Ref("team", "Team", "cascade"), Ref("badge", "Badge", "refuse")>>)
          EXCEPT !.cols = Tail(@), !.link = "team"]
Note == ModelWith("Note", "notes", <<Ref("member", "Member", "cascade"), Text("name")>>)
Live0 == {Team, Member, Badge, Award, Note}

With(old, new) == (Live0 \ {old}) \cup {new}
MoreCols(m, cols) == [m EXCEPT !.cols = @ \o cols]
Flagged(name, ui) == [Text(name) EXCEPT !.ui = ui, !.null = TRUE]
Opened == [Team EXCEPT !.public = "slug", !.publicNav = TRUE, !.api = TRUE]
Pinned(m, path) == [m EXCEPT !.path = path]
Held == [MoreCols(Opened, <<[Ref("token", "Badge", "null") EXCEPT !.null = TRUE]>>)
         EXCEPT !.relations = {Showing("held", "token", "Badge", {})}]
\* Declarations that are right, each with a feature of its own.
Right ==
  <<With(Team, Opened), With(Team, Pinned(Team, <<"squads">>)),
   With(Team, MoreCols(Opened, <<Flagged("phone", {"private", "search", "list"}), Flagged("token", {})>>)),
   With(Team, MoreCols(Opened, <<Flagged("notes", {"hidden", "list"}), [ColumnOf("tags", "json") EXCEPT !.null = TRUE]>>)),
   With(Team, [Team EXCEPT !.no = {"edit", "delete"}, !.nav = "hidden"]),
   With(Badge, [Badge EXCEPT !.disabled = TRUE]),
   With(Badge, MoreCols([Badge EXCEPT !.no = {"create"}, !.api = TRUE],
                        <<[Text("token_hash") EXCEPT !.ui = {"readonly"}]>>)),
   With(Member, [Member EXCEPT !.permission = "squad", !.no = {"delete"}]),
   With(Award, [Award EXCEPT !.cols = <<Key>> \o @]),
   With(Badge, [ModelWith("Badge", "badges", <<State>>) EXCEPT !.path = <<"admin">>]),
   With(Team, Held),
   \* ... and those whose URLs, rows or lists show more than is said of them.
   (With(Team, Held) \ {Member}) \cup {[Member EXCEPT !.relations = {Showing("of", "team", "Team", {"held"})}]},
   (With(Team, [Opened EXCEPT !.relations = {Showing("worn", "badge", "Badge", {})}]) \ {Badge})
     \cup {[Badge EXCEPT !.cols = <<Key, [Text("name") EXCEPT !.ui = {"private"}], State>>]},
   With(Team, [MoreCols(Opened, <<Flagged("phone", {"private"}), Flagged("token", {})>>)
               EXCEPT !.order = "token", !.publicOrder = "phone"]),
   (With(Team, [Pinned(Team, <<"squads">>) EXCEPT !.disabled = TRUE]) \ {Badge, Award})
     \cup {Pinned(Badge, <<"squads">>), [Award EXCEPT !.link = "badge", !.path = <<"members">>]},
   With(Badge, [Badge EXCEPT !.cols = <<Key, Flagged("name", {}), Slug>>, !.actions = {}])>>
\* Declarations the macro or the boot check is there to refuse.
Wrong ==
  <<With(Team, MoreCols(Team, <<[Flagged("api_key", {"list"}) EXCEPT !.name = "token"]>>)),
   With(Team, [MoreCols(Opened, <<[Flagged("token", {}) EXCEPT !.unique = TRUE]>>) EXCEPT !.public = "token"]),
   With(Team, [MoreCols(Team, <<Flagged("token", {})>>) EXCEPT !.title = "token"]),
   With(Badge, MoreCols(Badge, <<[Text("token_hash") EXCEPT !.ui = {"readonly"}]>>)),
   With(Badge, MoreCols(Badge, <<[ColumnOf("tags", "json") EXCEPT !.null = TRUE]>>)),
   With(Team, [Team EXCEPT !.public = "name"]), With(Member, [Member EXCEPT !.api = TRUE]),
   With(Member, [Member EXCEPT !.nav = "shown"]), With(Note, [Note EXCEPT !.parent = "member"]),
   With(Award, MoreCols(Award, <<Text("name")>>)), With(Award, [Award EXCEPT !.nav = "hidden"]),
   With(Team, [Team EXCEPT !.publicOrder = "name"]), With(Badge, Pinned(Badge, <<"awards">>)) \ {Team},
   With(Award, Pinned(Award, <<"members">>)), With(Member, Pinned(Member, <<"actions">>)),
   (With(Team, Opened) \ {Badge}) \cup {Pinned(Badge, <<"teams">>)},
   (With(Team, Pinned(Team, <<"squads">>)) \ {Badge}) \cup {Pinned(Badge, <<"squads">>)}>>

MCDeclared ==
  LET variations == Right \o Wrong
  IN  [i \in 0..Len(variations) |-> IF i = 0 THEN Live0 ELSE variations[i]]
MCTableOrder == <<"awards", "badges", "members", "notes", "teams">>
MCGrants ==
  LET all == {"teams", "badges", "squad", "notes"} \X {"read", "write"} IN
    [ann |-> ({"teams", "notes"} \X {"read", "write"}) \cup {<<"badges", "read">>},
     kim |-> {<<"teams", "read">>, <<"badges", "read">>}, root |-> all]

(***************************************************************************)
(* Hooks: an archived team is out of sight of all but the admin, and a     *)
(* locked one cannot be changed; a retired badge is seen by nobody else.   *)
(***************************************************************************)
MCScope(struct, u, row) ==
  u = "root" \/ struct \notin {"Team", "Badge"} \/ row.state \notin {"archived", "retired"}
MCInNav(struct, u) == struct = "Badge" => u # "kim"
MCMayCreate(struct, u, pid) == u # "kim"
MCMayEdit(struct, u, row) == struct = "Team" => row.state # "locked"
MCMayAct(struct, action, u, row) == action = "lock" => row.state # "locked"
MCActed(struct, action) ==
  "state" :> CASE action = "lock" -> "locked" [] action = "archive" -> "archived"
               [] action = "retire" -> "retired" [] OTHER -> "promoted"

MCData(a) ==
  IF a # 0 THEN [t \in {x.table : x \in Declared[a]} |-> {}] ELSE
    [teams |-> {[id |-> 1, coach |-> "ann", name |-> "x", slug |-> "x", state |-> "default", badge |-> None],
                [id |-> 2, coach |-> "bob", name |-> "y", slug |-> "y", state |-> "default", badge |-> 1]},
     members |-> {[id |-> 1, team |-> 1, name |-> "m", state |-> "default"],
                  [id |-> 2, team |-> 2, name |-> "n", state |-> "default"]},
     badges |-> {[id |-> 1, name |-> "b", state |-> "default"]},
     notes |-> {[id |-> 1, member |-> 1, name |-> "o"]},
     awards |-> {[team |-> 2, badge |-> 1]}]

Ask(kind, struct, u, id) ==
  [kind |-> kind, struct |-> struct, link |-> None, user |-> u, id |-> id, pid |-> None,
   form |-> <<>>, action |-> None, other |-> None]
Under(q, pid) == [q EXCEPT !.pid = pid]
Sending(q, form) == [q EXCEPT !.form = form]
Doing(q, action) == [q EXCEPT !.action = action]
TeamForm(name, slug, badge) ==
  [coach |-> "bob", name |-> name, slug |-> slug, badge |-> badge, state |-> "open"]
NoteForm(member) == [member |-> member, name |-> "o"]
MemberForm == [team |-> 2, name |-> "o", state |-> "open"]
Linking(kind, u, id) ==
  [Ask(kind, "Team", u, id) EXCEPT !.link = "Award", !.other = 1]

MCRequests(a) ==
  IF a # 0 THEN {} ELSE
  {Sending(Ask("update", "Team", "ann", 1), TeamForm("z", Empty, 1)),
   Sending(Ask("update", "Team", "ann", 2), TeamForm("z", Empty, Empty)),
   Sending(Ask("update", "Team", "root", 2), TeamForm("x", "z", 1)),
   Sending(Ask("create", "Team", "ann", None), TeamForm("z", Empty, 1)),
   Sending(Ask("create", "Team", "ann", None), TeamForm(Empty, "w", Empty)),
   Ask("delete", "Team", "ann", 1), Ask("delete", "Team", "root", 2), Ask("delete", "Badge", "root", 1),
   Doing(Ask("act", "Team", "ann", 1), "lock"), Doing(Ask("act", "Team", "root", 1), "archive"),
   Doing(Ask("act", "Badge", "root", 1), "retire"), Doing(Ask("act", "Team", "ann", 1), "close"),
   Under(Sending(Ask("create", "Member", "ann", None), MemberForm), 1),
   Under(Sending(Ask("update", "Member", "ann", 1), MemberForm), 1),
   Under(Sending(Ask("update", "Member", "ann", 2), MemberForm), 1),
   Under(Sending(Ask("update", "Member", "kim", 1), MemberForm), 1),
   Under(Doing(Ask("act", "Member", "ann", 1), "promote"), 1),
   Sending(Ask("create", "Note", "ann", None), NoteForm(1)),
   Sending(Ask("update", "Note", "ann", 1), NoteForm(2)),
   Linking("add", "ann", 1), Linking("add", "root", 1), Linking("remove", "root", 2),
   Linking("remove", "ann", 1)}
==============================================================================
