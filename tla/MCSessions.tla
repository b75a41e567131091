----------------------------- MODULE MCSessions -----------------------------
EXTENDS Sessions

SampleAllowed ==
    {{}, {"device", "reset", "navigate", "reload"}, {"fault", "reload"}, {"fault", "overlap"}, {"fault", "reset"}}
        \cup {{peril} : peril \in Perils}
============================================================================
