\* A recommender created under a quoted mixed-case name, then dropped.
CONSTANTS
    Written <- MC_Written
SPECIFICATION Spec
INVARIANT Droppable
