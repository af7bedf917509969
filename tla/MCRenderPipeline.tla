-------------------------- MODULE MCRenderPipeline --------------------------
(***************************************************************************)
(* A closet of eight garments for TLC, one more top than the cap of a      *)
(* prompt, and drafts of every kind.                                       *)
(***************************************************************************)
EXTENDS RenderPipeline

Garment(type, mid, warmth, neutral, families, formal, bold) ==
  [type |-> type, mid |-> mid, warmth |-> warmth, neutral |-> neutral,
   families |-> families, formal |-> formal, bold |-> bold, suits |-> TRUE]

Closet ==
  <<Garment("top", FALSE, 1, TRUE, {}, 2, FALSE),
    Garment("top", FALSE, 0, FALSE, {"red"}, -1, TRUE),
    Garment("top", TRUE, 1, FALSE, {"blue"}, 2, FALSE),
    Garment("bottom", FALSE, 1, TRUE, {}, 2, FALSE),
    Garment("bottom", FALSE, 1, FALSE, {"green"}, 5, TRUE),
    Garment("dress", FALSE, 1, FALSE, {"red"}, 4, FALSE),
    Garment("outer", FALSE, 2, FALSE, {"green"}, 3, FALSE),
    Garment("shoes", FALSE, 1, TRUE, {}, 1, FALSE)>>

Worn(dress, top, bottom, outer) ==
  [dress |-> dress, top |-> top, bottom |-> bottom, mid |-> 0, outer |-> outer, shoes |-> 0]

Row(candidate, action, slots, disliked) ==
  [snapshot |-> 1, candidate |-> candidate, action |-> action, slots |-> slots, disliked |-> disliked]

\* One silhouette rejected, one outfit liked, newest first.
Past == <<Row(1, "rejected", Worn(0, 1, 5, 0), <<6, 7>>),
          Row(2, "accepted", Worn(0, 1, 4, 7), <<>>)>>

\* The rejection is taken back, next to a row that is no reaction.
Forgiven == <<Row(1, "accepted", Worn(0, 1, 5, 0), <<>>),
              Row(2, "saved", Worn(0, 1, 4, 7), <<>>)>> \o Past

\* Two silhouettes rejected, one more than the cooldown remembers, and the
\* reaction before them out of reach.
Soured == <<Row(3, "rejected", Worn(0, 1, 4, 0), <<4>>),
            Row(2, "rejected", Worn(0, 1, 5, 7), <<>>),
            Row(2, "accepted", Worn(0, 1, 5, 7), <<>>),
            Row(4, "saved", Worn(0, 1, 4, 0), <<>>),
            Row(4, "rejected", Worn(6, 0, 0, 0), <<>>)>>

Request(intent, forced, locked, disliked, excluded, rain, count, rows) ==
  [intent |-> intent, forced |-> forced, locked |-> locked, disliked |-> disliked,
   excluded |-> excluded, weather |-> "mild", rain |-> rain, wind |-> FALSE,
   closet |-> Closet, count |-> count, rows |-> rows,
   renders |-> IF rows = <<>> THEN <<>> ELSE <<[shown |-> <<FullSignature(Worn(6, 0, 0, 0))>>]>>]

Lenses == {<<"daily", 0>>, <<"rescue_item", 1>>, <<"rescue_item", 3>>, <<"rescue_item", 7>>}

\* Locks and dislikes of the garments that decide, which the preflight then
\* thins out.
Controlled ==
  {Request(lens[1], lens[2], locked, disliked, {}, FALSE, 0, <<>>) :
     lens \in Lenses,
     locked \in {S \in SUBSET {1, 3, 4, 6} : Cardinality(S) <= 2},
     disliked \in {{}, {6}, {4, 5}, {4, 6}, {5, 6}, {4, 5, 6}, {1, 3, 6}}}

Practical ==
  {Request(lens[1], lens[2], {}, disliked, excluded, TRUE, 5, rows) :
     lens \in {<<"daily", 0>>, <<"rescue_item", 1>>},
     disliked \in {{}, {5}}, excluded \in {{}, {1, 4, 7}},
     rows \in {<<>>, Past, Forgiven, Soured}}

\* Closets that miss a type.
Thin ==
  {[req EXCEPT !.closet = [g \in kept |-> Closet[g]]] :
     kept \in {{1, 2, 3, 7, 8}, {4, 7}, {1, 6, 7}, {4, 5, 7}},
     req \in {Request(lens[1], lens[2], {}, {}, {}, TRUE, 0, <<>>) :
                lens \in Lenses \cup {<<"rescue_item", 4>>, <<"rescue_item", 6>>}}}

MCRequests == Controlled \cup Practical \cup Thin

Item(g, role) == [id |-> g, role |-> role]
Draft(items, move) == [wellFormed |-> TRUE, items |-> items, move |-> move]
Base(t, b) == <<Item(t, "base_top"), Item(b, "base_bottom")>>

Outer(g) == <<Item(g, "outer_layer")>>

Drafts ==
  {Draft(Base(1, 4) \o Outer(7), <<7>>),
   Draft(Base(1, 4) \o <<Item(3, "mid_layer")>> \o Outer(7), <<3, 7>>),
   Draft(Base(1, 5), <<>>),
   Draft(Base(1, 5) \o Outer(7), <<5>>),
   Draft(<<Item(6, "one_piece")>>, <<6>>),
   Draft(<<Item(6, "one_piece")>> \o Outer(7), <<6>>)}

Bad ==
  {[wellFormed |-> FALSE, items |-> <<>>, move |-> <<>>],
   Draft(Base(4, 1), <<1>>),
   Draft(<<Item(1, "base_top")>>, <<1>>),
   Draft(Base(1, 4) \o <<Item(1, "mid_layer")>>, <<1>>),
   Draft(Base(1, 4) \o Base(2, 5), <<1>>),
   Draft(<<Item(1, "hat")>>, <<1>>)}

Plain == Draft(Base(1, 4), <<1>>)

\* As many outfits of their own without a layer as the ranker is asked for.
Varied == <<Plain, Draft(Base(3, 4), <<3>>), Draft(<<Item(6, "one_piece")>>, <<6>>)>>

MCReplies ==
  {Unparsed, [parsed |-> TRUE, root |-> FALSE, drafts |-> <<Plain>>]}
  \cup {Answer(d) : d \in UNION {[1..n -> Drafts] : n \in 0..1}}
  \cup {Answer(<<a, b>>) : a \in Bad, b \in {Plain}}
  \cup {Answer(<<a, Plain, b>>) : a, b \in Drafts}
  \cup {Answer(<<Plain, Plain, Plain, a, b>>) : a, b \in Drafts}
  \cup {Answer(Varied \o <<a>>) : a \in Drafts}

MCCap == [t \in {"top", "bottom", "dress", "outer", "shoes"} |-> IF t \in {"top", "bottom"} THEN 2 ELSE 1]
=============================================================================
