----------------------------- MODULE MCDiarizer -----------------------------
EXTENDS SortformerModel

\* The geometry of low_latency_v2, scaled down.  A sample here stands for 160,
\* a hop; a mel frame reads 200 samples on each side of its position.
Pieces == {5, 16, 23}

=============================================================================
