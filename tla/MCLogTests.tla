----------------------------- MODULE MCLogTests -----------------------------
(* Small instances of LogTests for TLC. *)
EXTENDS LogTests, TLC

CONSTANT large

FourKeys == {1, 2, 3, 4}

(* A large value alone is over the threshold of 8; the entries of a test, four
   at most, are not. *)
Sizes ==
    (large :> 9) @@ (Tombstone :> 2) @@ [v \in {one, two, three} |-> 1]

ASSUME TestsFit

SetInCapitals == ("SET" :> "set") @@ ("SE" :> "se") @@ ("S" :> "s")

(* The beginnings of the words that name a command, of a key and of a value. *)
CutWords ==
    ("set" :> {"s", "se"}) @@ ("SET" :> {"S", "SE"}) @@ ("get" :> {"g", "ge"})
      @@ ("del" :> {"d", "de"}) @@ ("delete" :> {"d", "de", "del", "dele", "delet"})
      @@ ("quit" :> {"q", "qu", "qui"}) @@ ("exit" :> {"e", "ex", "exi"})
      @@ ("help" :> {"h", "he", "hel"}) @@ ("key" :> {"k", "ke"}) @@ ("val" :> {"v", "va"})

LinesWithCuts ==
    {<<"SET", "key", "val">>, <<"s", "key", "val">>, <<"get", "key">>, <<"del", "key">>,
     <<"delete", "key">>, <<"exit", "val">>, <<"help", "key">>,
     <<"set", "key", "val", "val">>}
=============================================================================
