SPECIFICATION Spec
INVARIANTS
  UriExact TextExact JsonReadExact CastExact StringsExact
  HttpExact EncodingsExact
CHECK_DEADLOCK FALSE
