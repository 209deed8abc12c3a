----------------------------- MODULE MCJobFiles -----------------------------
(* Two jobs of one skill whose ids share their first segment, on one       *)
(* machine, and one of another skill, on another machine, that is given    *)
(* the file the first may still be writing.                                *)
EXTENDS JobFiles

CONSTANTS a, b, c, m1, m2

Upload(name) == Path(<<"uploads", 0>>, name)

SomeMachine == a :> m1 @@ b :> m1 @@ c :> m2
SomeBase == a :> "ads/1f2e" @@ b :> "ads/1f2e" @@ c :> "posts/77aa"
SomeUploads == {Upload("i")}
SomeInputs == a :> {} @@ b :> {Value(Upload("i"), "drive/")}
                      @@ c :> {Value(Path(<<"ads/1f2e", 0>>, "x"), "list")}
SomeWork == {<<"tmp", 0>>}
SomeSpells == a :> {"string"} @@ b :> {"string", "drive/"} @@ c :> {"drive/"}
SomeWrites == a :> 2 @@ b :> 0 @@ c :> 0
SomeValues == a :> 2 @@ b :> 1 @@ c :> 0
=============================================================================
