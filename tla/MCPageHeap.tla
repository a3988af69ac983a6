----------------------------- MODULE MCPageHeap -----------------------------
EXTENDS PageHeap
\* One word, just over a double word, several words, nothing, more than a page.
RequestSizes == {0, 4, 9, 28, 200}
=============================================================================
