------------------------------ MODULE MCScreen ------------------------------
(***************************************************************************)
(* Small panels.  Each world has its own emphasis: the strip with two      *)
(* scripts, the strip with more cards than slots, the client grid, the     *)
(* graphs, and a little of everything.                                     *)
(***************************************************************************)
EXTENDS Screen

CONSTANTS a, b, c, d,    \* client hosts
          p, q              \* prune scripts

MCPriority == <<c, d>>

(* Services 1, 2, 3; zones 4, 5; stale hosts 6, 7; graph hosts 10 to 13. *)
MCWorlds == {
    {1, 4, p},                \* a service and a zone, pruned together
    {1, p, q},                \* two scripts
    {1, 2, p},                \* a command of more targets than fit
    {1, 2, 3},                \* more services than slots
    {1, 4, 5, 6, 7},          \* the three groups of the strip
    {a, b, c, d},             \* more clients than cards
    10 .. 13,                 \* more graphs than series, and than cells
    {1, 6, p, a, c, 10}}         \* a little of everything
=============================================================================
