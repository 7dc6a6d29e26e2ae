SPECIFICATION Spec
CONSTANT Programs <- MCPrograms
INVARIANTS LookupIsBest AcceptsUnambiguous ChainIsScoped
