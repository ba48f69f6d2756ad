--------------------------- MODULE MCServiceUpdate ---------------------------
EXTENDS ServiceUpdate

MCServices == {"db", "job", "web"}
MCImages == {"i1", "i2"}
MCOrder == [x \in MCServices \cup MCImages |->
              CASE x = "db" -> 1 [] x = "job" -> 2 [] x = "web" -> 3 [] x = "i1" -> 1 [] x = "i2" -> 2]

Keep == [op |-> "absent"]
Plain(v) == [op |-> "plain", val |-> v]
Image(k) == Plain([key |-> k, pin |-> None, invalid |-> FALSE])
Missing == [op |-> "absent"]
Map(image, build, profiles, deps) ==
  [op |-> "map", image |-> image, build |-> build, profiles |-> profiles, deps |-> deps]

\* web depends on db; job is built locally once the override is merged.
MCComposeFiles ==
  << [db |-> Map(Image("i1"), Keep, Keep, Keep),
      job |-> Map(Image("i2"), Keep, Plain({"batch"}), Keep),
      web |-> Map(Image("i2"), Keep, Keep, Plain({"db"}))],
     [db |-> Missing,
      job |-> Map([op |-> "replace", val |-> None], Plain(TRUE),
                  [op |-> "replace", val |-> {}], Keep),
      web |-> Missing] >>

Box(k, d, h) == [img |-> k, digest |-> d, repo |-> TRUE, state |-> "running", health |-> h]
MCTags == {[i1 |-> "d2", i2 |-> "d2"]}
MCContainers ==
  {[db |-> Box("i1", "d1", "healthy"), job |-> Box("i2", None, "none"), web |-> Box("i2", w, "none")] :
     w \in {"d1"}}
=============================================================================
