---------------------------- MODULE MCSizeLimits ----------------------------
(* Both sides of every boundary.                                            *)
EXTENDS SizeLimits

MCIdSizes == {0, 1, 2, 3, 4, 5, 62, 63, 64}
MCValueSizes == {0, 1, 1000 * 1000, 1000 * 1000 + 1}
                \cup (1024 * 1024 - 80) .. (1024 * 1024 + 1)
MCCounts == {0, 1, 9998, 9999, 10000, 19999}
=============================================================================
