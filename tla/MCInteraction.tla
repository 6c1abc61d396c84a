--------------------------- MODULE MCInteraction ---------------------------
EXTENDS Interaction

\* A glyph of a word, and a collapsed space.
G(l, w, t, h) == [l |-> l, w |-> w, t |-> t, h |-> h, word |-> TRUE]
Gap == [l |-> 0, w |-> 0, t |-> 0, h |-> 0, word |-> FALSE]

\* A heading; a paragraph of two lines, its second one broken by inline code.
Before ==
  <<[inner |-> 1, outer |-> 1, lh |-> 48, glyphs |-> <<G(26, 24, 10, 38)>>],
    [inner |-> 2, outer |-> 2, lh |-> 24,
     glyphs |-> <<G(26, 8, 62, 20), G(34, 12, 62, 20), Gap, G(26, 10, 86, 20)>>],
    [inner |-> 2, outer |-> 2, lh |-> 24, glyphs |-> <<G(40, 8, 88, 16)>>],
    [inner |-> 2, outer |-> 2, lh |-> 24, glyphs |-> <<G(52, 8, 86, 20)>>]>>

\* The paragraph's first line has gone.
After ==
  <<[inner |-> 1, outer |-> 1, lh |-> 48, glyphs |-> <<G(26, 24, 10, 38)>>],
    [inner |-> 2, outer |-> 2, lh |-> 24, glyphs |-> <<G(26, 10, 62, 20), G(36, 8, 62, 20)>>]>>

MCPages == <<Before, After>>
MCMatches == <<[a |-> <<1, 4, 8>>], [a |-> <<3>>]>>
\* One who does everything, one who only moves about, and one who searches and edits.
Everything == [mapped |-> {<<"character", TRUE>>, <<"line", TRUE>>, <<"line", FALSE>>},
              motions |-> 3, modes |-> 2, others |-> 2, keys |-> 4]
Moving == [mapped |-> {<<"line", TRUE>>, <<"lineboundary", TRUE>>, <<"word", TRUE>>,
                       <<"word_end", FALSE>>, <<"block", TRUE>>, <<"document", FALSE>>},
           motions |-> 3, modes |-> 0, others |-> 0, keys |-> 3]
Searching == [mapped |-> {}, motions |-> 0, modes |-> 1, others |-> 4, keys |-> 4]
MCReaders == {Everything, Moving, Searching}
MCClicks == {<<56, 96>>}

=============================================================================
