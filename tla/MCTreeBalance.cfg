\* Five commands: two macros of two commands and one command after an Undo.
CONSTANT MaxCommands = 5
\* Eight keys: rotations of both kinds, and removals of inner nodes, in every shape.
\* Twelve nodes: the smallest tree in which one removal unbalances two nodes.
CONSTANT Keys = {1, 2, 3, 4, 5, 6, 7, 8, 9, 10, 11, 12}
CONSTANT FewKeys = {1, 2, 3, 4, 5, 6, 7, 8}
CONSTANT MinTall = 10
\* Maps and sets of four keys: a removal with two children, and rotations.
CONSTANT Entries = {1, 2, 3, 4}
CONSTANT Tags = {1, 2}
CONSTANT Blank = 1
CONSTANT MaxStack = 2
\* Three bounds, and a number between any two and beyond each end.
CONSTANT Values = {2, 4, 6}
CONSTANT Points = {1, 2, 3, 4, 5, 6, 7}
SPECIFICATION MCSpec
INVARIANT TreeIsBalanced
